---- MODULE Spec2Model ----
(***************************************************************************)
(* Operator-execution layer of the hannk interpreter                       *)
(* (apps/hannk/interpreter/ops.cpp): shape normalisation (can_fuse, fuse,  *)
(* broadcast_shapes), quantization arithmetic (get_quantized_mul_and_shift *)
(* and the activation ranges) and kernel dispatch (requantize, depthwise   *)
(* convolution).                                                           *)
(*                                                                         *)
(* One call of a function of ops.cpp is one action.  `call' records the    *)
(* function and its arguments, `ret' what it returned, `pc' how it ended:  *)
(*   "ready"   nothing has been called yet                                 *)
(*   "done"    the function returned                                       *)
(*   "assert"  an assert() of the function does not hold (a debug build    *)
(*             aborts there; `ret' keeps the value a release build, where  *)
(*             assert is compiled out, goes on with)                       *)
(*   "fatal"   LOG(FATAL) or a failed CHECK ended the process              *)
(* `bufs' holds the buffer views the call works on and `kernels' the       *)
(* numeric kernels (and buffer writes) the call invoked, in order.         *)
(***************************************************************************)
EXTENDS Integers, Sequences, FiniteSets, TLC

VARIABLES pc, call, ret, bufs, kernels

vars == <<pc, call, ret, bufs, kernels>>

NoCall == [fn |-> "none"]
NoRet == [none |-> TRUE]
NoBufs == [none |-> TRUE]

Abs(x) == IF x < 0 THEN -x ELSE x
Max(x, y) == IF x >= y THEN x ELSE y
Min(x, y) == IF x <= y THEN x ELSE y

RECURSIVE Pow2(_)
Pow2(n) == IF n <= 0 THEN 1 ELSE 2 * Pow2(n - 1)

(***************************************************************************)
(* Binary numerals.  A 64-bit integer or the mantissa of a double does not *)
(* fit the model checker's integers, so both are kept as sequences of bits,*)
(* most significant bit first.  Products are formed limb by limb.          *)
(***************************************************************************)
Front(s) == SubSeq(s, 1, Len(s) - 1)
Last(s) == s[Len(s)]

\* s without its leading zeros.
Strip(s) ==
    IF \A i \in 1..Len(s) : s[i] = 0 THEN <<>>
    ELSE LET k == CHOOSE i \in 1..Len(s) : s[i] = 1 /\ \A j \in 1..(i - 1) : s[j] = 0
         IN SubSeq(s, k, Len(s))

RECURSIVE ValOf(_)
ValOf(s) ==
    IF Len(s) = 0 THEN 0
    ELSE IF Len(s) = 1 THEN s[1]
    ELSE LET h == Len(s) \div 2
         IN ValOf(SubSeq(s, 1, h)) * Pow2(Len(s) - h) + ValOf(SubSeq(s, h + 1, Len(s)))

\* The value of a numeral (for numerals below 2^31).
Val(s) == ValOf(Strip(s))

\* 1 followed by n zeros: the numeral of 2^n.
OneShl(n) == [i \in 1..(n + 1) |-> IF i = 1 THEN 1 ELSE 0]

\* Minus the value of a numeral (for numerals up to 2^31).
NegVal(s) == IF Strip(s) = OneShl(31) THEN -2147483647 - 1 ELSE -Val(s)

\* The numeral of n, 0 <= n < 2^31, in w bits.
ToBitsW(n, w) == [i \in 1..w |-> (n \div Pow2(w - i)) % 2]
ToBits(n) == Strip(ToBitsW(n, 31))

LimbBase == Pow2(16)

\* The limbs of a numeral, least significant limb first.
Limbs(s) ==
    [k \in 1..((Len(s) + 15) \div 16) |->
        ValOf(SubSeq(s, Max(1, Len(s) - 16 * k + 1), Len(s) - 16 * (k - 1)))]

\* The numeral of a sequence of limbs.
FromLimbs(l) ==
    [i \in 1..(16 * Len(l)) |->
        (l[Len(l) - ((i - 1) \div 16)] \div Pow2(15 - ((i - 1) % 16))) % 2]

RECURSIVE LimbMulAdd(_, _, _)
LimbMulAdd(l, x, c) ==
    IF l = <<>> THEN (IF c = 0 THEN <<>> ELSE <<c>>)
    ELSE LET t == Head(l) * x + c
         IN <<t % LimbBase>> \o LimbMulAdd(Tail(l), x, t \div LimbBase)

\* s * x + c for 0 <= x, c < 2^15.
MulAdd(s, x, c) == FromLimbs(LimbMulAdd(Limbs(s), x, c))

\* s + 1 in the width of s plus one carry bit in front.
Inc(s) ==
    IF \A i \in 1..Len(s) : s[i] = 1 THEN OneShl(Len(s))
    ELSE LET k == CHOOSE i \in 1..Len(s) : s[i] = 0 /\ \A j \in (i + 1)..Len(s) : s[j] = 1
         IN <<0>> \o [i \in 1..Len(s) |->
                IF i < k THEN s[i] ELSE IF i = k THEN 1 ELSE 0]

\* floor(s / 2^k)
Shr(s, k) == IF k >= Len(s) THEN <<>> ELSE SubSeq(s, 1, Len(s) - k)

\* Bit k of s, bit 0 being the least significant.
BitAt(s, k) == IF k < 0 \/ k >= Len(s) THEN 0 ELSE s[Len(s) - k]

(***************************************************************************)
(* double.  A finite double is sign * 0.b1 b2 ... b53 * 2^exp with b1 = 1, *)
(* which is the form std::frexp hands back: the fraction in [0.5, 1) and   *)
(* the exponent.  Zero has an all-zero mantissa.                           *)
(***************************************************************************)
MantBits == 53

Zeros(n) == [i \in 1..n |-> 0]
DoubleZero == [neg |-> FALSE, mant |-> Zeros(MantBits), exp |-> 0]
IsZero(d) == d.mant = Zeros(MantBits)

\* 1 - 2^-k: k leading ones.
Ones(k) == [i \in 1..MantBits |-> IF i <= k THEN 1 ELSE 0]
\* 1/2 + 2^-j for j >= 2, and 1/2 for j = 1.
HalfPlus(j) == [i \in 1..MantBits |-> IF i = 1 \/ i = j THEN 1 ELSE 0]

\* The double 2^e.
DoublePow2(e) == [neg |-> FALSE, mant |-> HalfPlus(1), exp |-> e + 1]

\* 0 <= d < 1
InUnitInterval(d) == IsZero(d) \/ (~d.neg /\ d.exp <= 0)

\* std::frexp: the fraction and the exponent of a non-zero double.
frexp(d) == [q |-> [neg |-> d.neg, mant |-> d.mant], shift |-> d.exp]

(***************************************************************************)
(* get_quantized_mul_and_shift.  q_fixed is an int64_t: a sign and a       *)
(* numeral of `bits' bits (bits - 1 bits of the fraction and one bit for   *)
(* the carry of the rounding).                                             *)
(***************************************************************************)
\* (int64_t)std::round(q * (1LL << (bits - 1))): round half away from zero.
RoundScaled(q, bits) ==
    LET whole == SubSeq(q.mant, 1, bits - 1)
    IN [neg |-> q.neg,
        mag |-> IF q.mant[bits] = 1 THEN Inc(whole) ELSE <<0>> \o whole]

\* q_fixed == (1LL << (bits - 1))
IsOneShl(qf, bits) == ~qf.neg /\ qf.mag = OneShl(bits - 1)

\* q_fixed /= 2 (q_fixed >= 0 here), in the same width.
Halve(qf) == [neg |-> qf.neg, mag |-> <<0>> \o Front(qf.mag)]

\* (int)q_fixed
ToInt(qf) == IF qf.neg THEN NegVal(qf.mag) ELSE Val(qf.mag)

\* As the function below, without the ++shift of the renormalisation.
get_quantized_mul_and_shift_no_renormalise(double_multiplier, bits) ==
    IF IsZero(double_multiplier) THEN [multiplier |-> 0, shift |-> 0, ok |-> TRUE]
    ELSE
      LET f == frexp(double_multiplier)
          q_fixed == RoundScaled(f.q, bits)
          under == f.shift < -(bits - 1)
      IN [multiplier |-> IF under THEN 0
                         ELSE IF IsOneShl(q_fixed, bits) THEN ToInt(Halve(q_fixed))
                         ELSE ToInt(q_fixed),
          shift |-> IF under THEN 0 ELSE f.shift,
          ok |-> TRUE]

\* As the function below, with the exponent of a fraction in [1, 2).
get_quantized_mul_and_shift_shift_sign(double_multiplier, bits) ==
    IF IsZero(double_multiplier) THEN [multiplier |-> 0, shift |-> 0, ok |-> TRUE]
    ELSE
      LET f == frexp(double_multiplier)
          q_fixed == RoundScaled(f.q, bits)
          under == f.shift < -(bits - 1)
      IN [multiplier |-> IF under THEN 0
                         ELSE IF IsOneShl(q_fixed, bits) THEN ToInt(Halve(q_fixed))
                         ELSE ToInt(q_fixed),
          shift |-> IF under THEN 0 ELSE f.shift - 1,
          ok |-> TRUE]

\* As the function below, with the test for underflow made on the exponent
\* frexp returns, before the renormalisation.
get_quantized_mul_and_shift_underflow_first(double_multiplier, bits) ==
    IF IsZero(double_multiplier) THEN [multiplier |-> 0, shift |-> 0, ok |-> TRUE]
    ELSE
      LET f == frexp(double_multiplier)
          q_fixed == RoundScaled(f.q, bits)
          renorm == IsOneShl(q_fixed, bits)
          under == f.shift < -(bits - 1)
      IN [multiplier |-> IF under THEN 0
                         ELSE IF renorm THEN ToInt(Halve(q_fixed)) ELSE ToInt(q_fixed),
          shift |-> IF under THEN 0 ELSE IF renorm THEN f.shift + 1 ELSE f.shift,
          ok |-> TRUE]

\* The result, and in `ok' whether both assertions of the body hold.
get_quantized_mul_and_shift(double_multiplier, bits) ==
    IF IsZero(double_multiplier) THEN [multiplier |-> 0, shift |-> 0, ok |-> TRUE]
    ELSE
      LET f == frexp(double_multiplier)
          q_fixed == RoundScaled(f.q, bits)
          \* assert(q_fixed <= (1LL << (bits - 1))): the numeral has `bits'
          \* bits, so it exceeds 2^(bits-1) only with the top bit and another set.
          a1 == q_fixed.neg \/ q_fixed.mag[1] = 0 \/ IsOneShl(q_fixed, bits)
          renorm == IsOneShl(q_fixed, bits)
          q2 == IF renorm THEN Halve(q_fixed) ELSE q_fixed
          s2 == IF renorm THEN f.shift + 1 ELSE f.shift
          \* assert(q_fixed <= std::numeric_limits<int32_t>::max())
          a2 == q2.neg \/ Len(q2.mag) <= 31 \/ q2.mag[Len(q2.mag) - 31] = 0
          under == s2 < -(bits - 1)
      IN [multiplier |-> IF under THEN 0 ELSE ToInt(q2),
          shift |-> IF under THEN 0 ELSE s2,
          ok |-> a1 /\ a2]

\* The result; `pre' and `post' tell whether the two assertions hold.
get_quantized_mul_and_shift_smaller_than_one(double_multiplier, bits) ==
    LET result == get_quantized_mul_and_shift(double_multiplier, bits)
    IN [multiplier |-> result.multiplier, shift |-> result.shift,
        pre |-> InUnitInterval(double_multiplier),
        post |-> result.ok /\ result.shift <= 0]

(***************************************************************************)
(* Quantization arithmetic on its own: each entry point called once with a *)
(* double and a precision.                                                 *)
(***************************************************************************)
MaxNegExp == 33
MaxPosExp == 1

\* Mantissa lengths around the two precisions and at both ends of a double.
MantissaLengths == {1, 2, 3, 8, 15, 16, 17, 18, 30, 31, 32, 33, 34, MantBits - 1, MantBits}
Mantissas ==
    {Ones(k) : k \in MantissaLengths} \cup {HalfPlus(j) : j \in MantissaLengths \ {1}}
NegativeMantissas == {Ones(1), Ones(MantBits)}
Doubles ==
    {DoubleZero}
    \cup [neg : {FALSE}, mant : Mantissas, exp : (-MaxNegExp)..MaxPosExp]
    \cup [neg : {TRUE}, mant : NegativeMantissas, exp : (-MaxNegExp)..MaxPosExp]
Precisions == {16, 32}

QuantInit ==
    /\ pc = "ready"
    /\ call = NoCall
    /\ ret = NoRet
    /\ bufs = NoBufs
    /\ kernels = <<>>

CallGetQuantizedMulAndShift ==
    /\ pc = "ready"
    /\ \E m \in Doubles, bits \in Precisions :
         LET r == get_quantized_mul_and_shift(m, bits)
         IN /\ call' = [fn |-> "get_quantized_mul_and_shift", m |-> m, bits |-> bits]
            /\ ret' = [multiplier |-> r.multiplier, shift |-> r.shift]
            /\ pc' = IF r.ok THEN "done" ELSE "assert"
    /\ UNCHANGED <<bufs, kernels>>

CallGetQuantizedMulAndShiftSmallerThanOne ==
    /\ pc = "ready"
    /\ \E m \in Doubles, bits \in Precisions :
         LET r == get_quantized_mul_and_shift_smaller_than_one(m, bits)
         IN /\ call' = [fn |-> "get_quantized_mul_and_shift_smaller_than_one",
                        m |-> m, bits |-> bits]
            /\ ret' = [multiplier |-> r.multiplier, shift |-> r.shift,
                       pre |-> r.pre, post |-> r.post]
            /\ pc' = IF r.pre /\ r.post THEN "done" ELSE "assert"
    /\ UNCHANGED <<bufs, kernels>>

QuantNext ==
    \/ CallGetQuantizedMulAndShift
    \/ CallGetQuantizedMulAndShiftSmallerThanOne

SpecQuant == QuantInit /\ [][QuantNext]_vars

(***************************************************************************)
(* Claims about the quantization arithmetic.                               *)
(***************************************************************************)
DefaultBits == 32

\* The integer multiply-and-shift a (multiplier, shift) pair encodes:
\* floor(multiplier * x * 2^shift / 2^31), for multiplier, x >= 0.
fixed_point_apply(multiplier, shift, x) ==
    Val(Shr(MulAdd(ToBits(multiplier), x, 0), 31 - shift))

\* round(m * x) for a double m >= 0 and an integer x >= 0: m * x is
\* mant * x / 2^(MantBits - exp).
RoundMul(m, x) ==
    LET n == MulAdd(m.mant, x, 0)
        f == MantBits - m.exp
    IN Val(Shr(n, f)) + BitAt(n, f - 1)

\* Representative values of an 8-bit operand.
OperandValues == {0, 1, 2, 3, 5, 64, 127, 128, 129, 254, 255}

IsMulAndShiftCall == pc # "ready" /\ call.fn = "get_quantized_mul_and_shift"
IsSmallerThanOneCall ==
    pc # "ready" /\ call.fn = "get_quantized_mul_and_shift_smaller_than_one"

\* C4: for every m in (0, 1) and every operand value x, the 32-bit pair
\* returned for m applied to x is within 1 of round(m * x).
C4_FixedPointWithinOne ==
    (IsMulAndShiftCall /\ call.bits = DefaultBits
        /\ ~IsZero(call.m) /\ InUnitInterval(call.m))
    => \A x \in OperandValues :
         Abs(fixed_point_apply(ret.multiplier, ret.shift, x) - RoundMul(call.m, x)) <= 1

\* An m so close to 1 that the mantissa was renormalised, applied to 255.
C4_Witness ==
    /\ IsMulAndShiftCall /\ call.bits = DefaultBits
    /\ ~IsZero(call.m) /\ InUnitInterval(call.m)
    /\ ret.shift = 1
    /\ fixed_point_apply(ret.multiplier, ret.shift, 255) = 255
    /\ RoundMul(call.m, 255) = 255

IsHalfCall ==
    IsMulAndShiftCall /\ call.bits = DefaultBits /\ call.m = DoublePow2(-1)

\* C5 (as amended): get_quantized_mul_and_shift(0.5) with 32 bits returns
\* multiplier = 2^30 and shift = 0.
C5_HalfIsTwoPow30ShiftZero ==
    IsHalfCall => (ret.multiplier = Pow2(30) /\ ret.shift = 0)

C5_Witness == IsHalfCall /\ pc = "done" /\ ret.multiplier = Pow2(30)

\* C5 as stated: multiplier = 2^30 and shift = -1.
C5_AsStated ==
    IsHalfCall => (ret.multiplier = Pow2(30) /\ ret.shift = -1)

\* C6: for every 0 <= m < 1 and both precisions the specialised entry point
\* returns a shift <= 0 (its post-condition assertion holds).
C6_ShiftNeverPositive ==
    (IsSmallerThanOneCall /\ ret.pre) => (ret.post /\ ret.shift <= 0)

(***************************************************************************)
(* Activation ranges.  A scale is a float, a binary fraction n / 2^k; for  *)
(* the numerators and shifts drawn here c / scale is far from every        *)
(* half-integer it does not hit exactly, so std::round(c / scale) is the   *)
(* exact quotient rounded half away from zero, and it fits an int.         *)
(***************************************************************************)
MaxZero == 255
MaxScaleShift == 8

\* round(c * 2^k / n) for n > 0, half away from zero.
RoundDiv(c, scale) ==
    LET a == Abs(c) * Pow2(scale.k)
        r == (2 * a + scale.n) \div (2 * scale.n)
    IN IF c < 0 THEN -r ELSE r

Activations == {"None", "Relu", "Relu6", "ReluN1To1"}
\* An ActivationFunction the quantized code has no case for.
UnsupportedActivations == {"Tanh"}

\* As the function below, without the upper clamp of the result.
get_quantized_min_max_no_upper_clamp(activation, zero_point, scale) ==
    LET min == IF activation \in {"Relu", "Relu6"} THEN zero_point
               ELSE IF activation = "ReluN1To1" THEN zero_point + RoundDiv(-1, scale)
               ELSE 0
        max == IF activation = "Relu6" THEN zero_point + RoundDiv(6, scale)
               ELSE IF activation = "ReluN1To1" THEN zero_point + RoundDiv(1, scale)
               ELSE 255
    IN [ok |-> activation \in Activations, min |-> Max(min, 0), max |-> max]

\* As the function below, with the two ends of ReluN1To1 exchanged.
get_quantized_min_max_swapped(activation, zero_point, scale) ==
    LET min == IF activation \in {"Relu", "Relu6"} THEN zero_point
               ELSE IF activation = "ReluN1To1" THEN zero_point + RoundDiv(1, scale)
               ELSE 0
        max == IF activation = "Relu6" THEN zero_point + RoundDiv(6, scale)
               ELSE IF activation = "ReluN1To1" THEN zero_point + RoundDiv(-1, scale)
               ELSE 255
    IN [ok |-> activation \in Activations, min |-> Max(min, 0), max |-> Min(max, 255)]

\* The interval; `ok' is FALSE where the function ends in CHECK(false).
get_quantized_min_max(activation, zero_point, scale) ==
    LET min == IF activation = "None" THEN 0
               ELSE IF activation = "Relu" THEN zero_point
               ELSE IF activation = "Relu6" THEN zero_point
               ELSE IF activation = "ReluN1To1" THEN zero_point + RoundDiv(-1, scale)
               ELSE 0
        max == IF activation = "None" THEN 255
               ELSE IF activation = "Relu" THEN 255
               ELSE IF activation = "Relu6" THEN zero_point + RoundDiv(6, scale)
               ELSE IF activation = "ReluN1To1" THEN zero_point + RoundDiv(1, scale)
               ELSE 255
    IN [ok |-> activation \in Activations, min |-> Max(min, 0), max |-> Min(max, 255)]

\* The interval; `checked' is FALSE after CHECK(false), `asserted' tells
\* whether the four assertions hold.
get_output_range(activation, quantization) ==
    LET output_zero == quantization.zero
        output_scale == quantization.scale
        output_range == get_quantized_min_max(activation, output_zero, output_scale)
    IN [min |-> output_range.min, max |-> output_range.max,
        checked |-> output_range.ok,
        asserted |-> /\ output_zero >= 0 /\ output_zero <= 255
                     /\ output_range.min >= 0 /\ output_range.min <= 255
                     /\ output_range.max >= 0 /\ output_range.max <= 255
                     /\ output_range.min <= output_range.max]

ScaleNumerators == {1, 2, 3, 4, 5, 13}
Scales == [n : ScaleNumerators, k : 0..MaxScaleShift]
ZeroPoints == (-1)..(MaxZero + 1)

RangeInit ==
    /\ pc = "ready"
    /\ call = NoCall
    /\ ret = NoRet
    /\ bufs = NoBufs
    /\ kernels = <<>>

CallGetQuantizedMinMax ==
    /\ pc = "ready"
    /\ \E activation \in Activations \cup UnsupportedActivations,
          zero_point \in ZeroPoints, scale \in Scales :
         LET r == get_quantized_min_max(activation, zero_point, scale)
         IN /\ call' = [fn |-> "get_quantized_min_max", activation |-> activation,
                        zero_point |-> zero_point, scale |-> scale]
            /\ ret' = IF r.ok THEN [min |-> r.min, max |-> r.max] ELSE NoRet
            /\ pc' = IF r.ok THEN "done" ELSE "fatal"
    /\ UNCHANGED <<bufs, kernels>>

CallGetOutputRange ==
    /\ pc = "ready"
    /\ \E activation \in Activations \cup UnsupportedActivations,
          zero_point \in ZeroPoints, scale \in Scales :
         LET r == get_output_range(activation, [zero |-> zero_point, scale |-> scale])
         IN /\ call' = [fn |-> "get_output_range", activation |-> activation,
                        zero_point |-> zero_point, scale |-> scale]
            /\ ret' = IF r.checked THEN [min |-> r.min, max |-> r.max] ELSE NoRet
            /\ pc' = IF ~r.checked THEN "fatal"
                     ELSE IF r.asserted THEN "done" ELSE "assert"
    /\ UNCHANGED <<bufs, kernels>>

RangeNext ==
    \/ CallGetQuantizedMinMax
    \/ CallGetOutputRange

SpecRange == RangeInit /\ [][RangeNext]_vars

(***************************************************************************)
(* Claims about the activation ranges.                                     *)
(***************************************************************************)
Clamp(x, lo, hi) == IF x < lo THEN lo ELSE IF x > hi THEN hi ELSE x

IsMinMaxCall == pc # "ready" /\ call.fn = "get_quantized_min_max"
IsOutputRangeCall == pc # "ready" /\ call.fn = "get_output_range"
ZeroPointInRange == call.zero_point >= 0 /\ call.zero_point <= MaxZero

\* C7: for ReLU6, a zero-point z in [0, 255] and a positive scale s,
\* get_quantized_min_max returns [clamp(z, 0, 255), clamp(z + round(6/s), 0, 255)].
C7_Relu6BothEndsClamped ==
    (IsMinMaxCall /\ call.activation = "Relu6" /\ ZeroPointInRange)
    => /\ pc = "done"
       /\ ret.min = Clamp(call.zero_point, 0, 255)
       /\ ret.max = Clamp(call.zero_point + RoundDiv(6, call.scale), 0, 255)

\* A ReLU6 call whose upper end is cut down to 255.
C7_Witness ==
    /\ IsMinMaxCall /\ call.activation = "Relu6" /\ ZeroPointInRange
    /\ call.zero_point + RoundDiv(6, call.scale) > 255
    /\ ret.max = 255 /\ ret.min = call.zero_point /\ ret.min > 0

\* C8: for the four activation kinds, a zero-point in [0, 255] and a positive
\* scale, get_output_range returns 0 <= min <= max <= 255 with every
\* assertion holding; for None the interval is exactly [0, 255].
C8_OutputRangeWithinByte ==
    (IsOutputRangeCall /\ call.activation \in Activations /\ ZeroPointInRange)
    => /\ pc = "done"
       /\ 0 <= ret.min /\ ret.min <= ret.max /\ ret.max <= 255
       /\ (call.activation = "None" => ret = [min |-> 0, max |-> 255])

\* A ReluN1To1 call whose interval lies strictly inside [0, 255].
C8_Witness ==
    /\ IsOutputRangeCall /\ call.activation = "ReluN1To1" /\ ZeroPointInRange
    /\ pc = "done"
    /\ 0 < ret.min /\ ret.min < ret.max /\ ret.max < 255

(***************************************************************************)
(* Strided views.  A view is a host offset (the storage element its        *)
(* minimum coordinates address) and its dimensions, each with a min, an    *)
(* extent and a stride; dimension d of the code is dim[d + 1] here.        *)
(***************************************************************************)
MaxRank == 3

Dimensions(buf) == Len(buf.dim)
Dim(buf, d) == buf.dim[d + 1]

\* The storage element a coordinate tuple addresses.
RECURSIVE OffsetOf(_, _)
OffsetOf(dims, idx) ==
    IF dims = <<>> THEN 0
    ELSE (Head(idx) - Head(dims).min) * Head(dims).stride + OffsetOf(Tail(dims), Tail(idx))
AddressOf(buf, idx) == buf.host + OffsetOf(buf.dim, idx)

\* Buffer::slice(d): dimension d is dropped at its minimum.
slice(buf, d) ==
    [host |-> buf.host,
     dim |-> [i \in 1..(Dimensions(buf) - 1) |->
                IF i < d + 1 THEN buf.dim[i] ELSE buf.dim[i + 1]]]

\* As the function below, without the test for a positive stride.
can_fuse_any_stride(buf, d0, d1) ==
    /\ d0 < Dimensions(buf)
    /\ d1 < Dimensions(buf)
    /\ Dim(buf, d0).min = 0
    /\ Dim(buf, d1).stride = Dim(buf, d0).extent * Dim(buf, d0).stride

can_fuse(buf, d0, d1) ==
    /\ d0 < Dimensions(buf)
    /\ d1 < Dimensions(buf)
    /\ Dim(buf, d0).min = 0
    /\ Dim(buf, d1).stride > 0
    /\ Dim(buf, d1).stride = Dim(buf, d0).extent * Dim(buf, d0).stride

\* As the function below, the extent of d0 left as it was.
fuse_keeps_extent(buf, d0, d1) ==
    slice([host |-> buf.host,
           dim |-> [i \in 1..Dimensions(buf) |->
                      IF i >= d1 + 1 /\ i < Dimensions(buf)
                      THEN buf.dim[i + 1] ELSE buf.dim[i]]],
          Dimensions(buf) - 1)

fuse(buf, d0, d1) ==
    LET \* dim0.extent *= dim1.extent
        multiplied == [buf.dim EXCEPT ![d0 + 1].extent =
                          buf.dim[d0 + 1].extent * buf.dim[d1 + 1].extent]
        \* for (d = d1; d + 1 < dimensions; d++) dim[d] = dim[d + 1]
        shifted == [i \in 1..Dimensions(buf) |->
                      IF i >= d1 + 1 /\ i < Dimensions(buf)
                      THEN multiplied[i + 1] ELSE multiplied[i]]
    IN slice([host |-> buf.host, dim |-> shifted], Dimensions(buf) - 1)

(***************************************************************************)
(* Views to fuse: dimensions laid out one after the other over dense       *)
(* storage, each either tightly packed on the one before ("dense"), with a *)
(* gap ("padded") or a broadcast dimension of stride 0; any dimension may  *)
(* be a crop with a non-zero min.                                          *)
(***************************************************************************)
Extents == {1, 2}
Mins == {0, 1}
StrideKinds == {"dense", "padded", "broadcast"}
Shapes == [min : Mins, extent : Extents, kind : StrideKinds]

\* The strides of a layout, given the size of the storage below it.
RECURSIVE Layout(_, _)
Layout(shape, size) ==
    IF shape = <<>> THEN <<>>
    ELSE LET h == Head(shape)
             stride == IF h.kind = "broadcast" THEN 0
                       ELSE IF h.kind = "padded" THEN size + 1 ELSE size
         IN <<[min |-> h.min, extent |-> h.extent, stride |-> stride]>>
            \o Layout(Tail(shape), IF stride = 0 THEN size ELSE stride * h.extent)

Views ==
    UNION {{[host |-> 0, dim |-> Layout(shape, 1)] : shape \in [1..r -> Shapes]}
           : r \in 1..MaxRank}

FuseInit ==
    /\ pc = "ready"
    /\ call = NoCall
    /\ ret = NoRet
    /\ bufs \in [buf : Views]
    /\ kernels = <<>>

CallCanFuse ==
    /\ pc \in {"ready", "done"}
    /\ \E d0 \in 0..(MaxRank - 1), d1 \in 0..(MaxRank - 1) :
         /\ d0 # d1
         /\ call' = [fn |-> "can_fuse", buf |-> bufs.buf, d0 |-> d0, d1 |-> d1]
         /\ ret' = [value |-> can_fuse(bufs.buf, d0, d1)]
    /\ pc' = "done"
    /\ UNCHANGED <<bufs, kernels>>

\* fuse_cx, fuse_xy and their like: fuse is called where can_fuse holds.
CallFuse ==
    /\ pc \in {"ready", "done"}
    /\ \E d0 \in 0..(MaxRank - 2) :
         /\ can_fuse(bufs.buf, d0, d0 + 1)
         /\ call' = [fn |-> "fuse", buf |-> bufs.buf, d0 |-> d0, d1 |-> d0 + 1]
         /\ bufs' = [buf |-> fuse(bufs.buf, d0, d0 + 1)]
    /\ ret' = NoRet
    /\ pc' = "done"
    /\ UNCHANGED kernels

FuseNext ==
    \/ CallCanFuse
    \/ CallFuse

SpecFuse == FuseInit /\ [][FuseNext]_vars

(***************************************************************************)
(* Claims about fusion.                                                    *)
(***************************************************************************)
RECURSIVE Product(_)
Product(dims) == IF dims = <<>> THEN 1 ELSE Head(dims).extent * Product(Tail(dims))
NumberOfElements(buf) == Product(buf.dim)

\* Every coordinate tuple of a view.
RECURSIVE CoordsOf(_)
CoordsOf(dims) ==
    IF dims = <<>> THEN {<<>>}
    ELSE {<<i>> \o rest : i \in Head(dims).min..(Head(dims).min + Head(dims).extent - 1),
                          rest \in CoordsOf(Tail(dims))}
Coords(buf) == CoordsOf(buf.dim)

IsFuseCall == pc # "ready" /\ call.fn = "fuse"
IsCanFuseCall == pc # "ready" /\ call.fn = "can_fuse"

\* The coordinates of the unfused view for a coordinate tuple of the fused
\* one: (i mod extent(d0), base + i div extent(d0)) at d0 and d1, the
\* dimensions after d1 taken from one place further down.
Unfused(idx, d0, extent0, base) ==
    [i \in 1..(Len(idx) + 1) |->
        IF i < d0 + 1 THEN idx[i]
        ELSE IF i = d0 + 1 THEN idx[d0 + 1] % extent0
        ELSE IF i = d0 + 2 THEN base + (idx[d0 + 1] \div extent0)
        ELSE idx[i - 1]]

\* Element count kept, rank one less, the other dimensions carried over.
FusedShape ==
    /\ NumberOfElements(bufs.buf) = NumberOfElements(call.buf)
    /\ Dimensions(bufs.buf) = Dimensions(call.buf) - 1
    /\ \A d \in 0..(Dimensions(bufs.buf) - 1) :
         /\ d < call.d0 => Dim(bufs.buf, d) = Dim(call.buf, d)
         /\ d > call.d0 => Dim(bufs.buf, d) = Dim(call.buf, d + 1)

\* C1 (as amended): after fuse(buf, d0, d1) on fusable adjacent dimensions
\* the view has the same element count, its other dimensions are shifted
\* down unchanged, and fused index i along d0 addresses the storage element
\* of the unfused pair (i mod extent(d0), min(d1) + i div extent(d0)).
C1_FusePreservesAddressing ==
    IsFuseCall =>
      /\ FusedShape
      /\ \A idx \in Coords(bufs.buf) :
           LET u == Unfused(idx, call.d0, Dim(call.buf, call.d0).extent,
                            Dim(call.buf, call.d1).min)
           IN u \in Coords(call.buf)
              /\ AddressOf(bufs.buf, idx) = AddressOf(call.buf, u)

\* A fusion of two dimensions of extent 2 below a third dimension.
C1_Witness ==
    /\ IsFuseCall
    /\ Dimensions(call.buf) = 3 /\ call.d0 = 0
    /\ Dim(call.buf, 0).extent = 2 /\ Dim(call.buf, 1).extent = 2
    /\ Dim(call.buf, 1).min = 1
    /\ Dim(bufs.buf, 0).extent = 4

\* C1 as stated: the unfused pair is (i mod extent(d0), i div extent(d0)).
C1_AsStated ==
    IsFuseCall =>
      /\ FusedShape
      /\ \A idx \in Coords(bufs.buf) :
           AddressOf(bufs.buf, idx) =
             AddressOf(call.buf, Unfused(idx, call.d0, Dim(call.buf, call.d0).extent, 0))

BothDimensionsExist ==
    call.d0 < Dimensions(call.buf) /\ call.d1 < Dimensions(call.buf)

\* C2 (as amended): for dimensions d0, d1 of the view, can_fuse returns true
\* iff min(d0) = 0, stride(d1) > 0 and stride(d1) = extent(d0) * stride(d0).
C2_CanFuseIffPackedPositive ==
    (IsCanFuseCall /\ BothDimensionsExist) =>
      (ret.value <=>
         /\ Dim(call.buf, call.d0).min = 0
         /\ Dim(call.buf, call.d1).stride > 0
         /\ Dim(call.buf, call.d1).stride
              = Dim(call.buf, call.d0).extent * Dim(call.buf, call.d0).stride)

\* can_fuse refusing two broadcast dimensions, and accepting packed ones.
C2_Witness ==
    /\ IsCanFuseCall /\ BothDimensionsExist
    /\ ret.value
    /\ Dim(call.buf, call.d0).extent = 2
    /\ Dim(call.buf, call.d1).stride = 2 * Dim(call.buf, call.d0).stride

\* C2 as stated: iff min(d0) = 0 and stride(d1) = extent(d0) * stride(d0).
C2_AsStated ==
    (IsCanFuseCall /\ BothDimensionsExist) =>
      (ret.value <=>
         /\ Dim(call.buf, call.d0).min = 0
         /\ Dim(call.buf, call.d1).stride
              = Dim(call.buf, call.d0).extent * Dim(call.buf, call.d0).stride)

(***************************************************************************)
(* Broadcasting, as BinaryOp::execute applies it to its two inputs.        *)
(***************************************************************************)
BinaryRank == 4

\* Buffer::embed(d, pos): a new dimension d of extent 1 at coordinate pos;
\* its stride is the size of the outermost dimension.
embed(buf, d, pos) ==
    LET n == Dimensions(buf)
        added == [min |-> pos, extent |-> 1,
                  stride |-> IF n = 0 THEN 1
                             ELSE buf.dim[n].extent * buf.dim[n].stride]
    IN [host |-> buf.host,
        dim |-> [i \in 1..(n + 1) |->
                   IF i < d + 1 THEN buf.dim[i]
                   ELSE IF i = d + 1 THEN added ELSE buf.dim[i - 1]]]

RECURSIVE pad_to_rank(_, _)
pad_to_rank(buf, rank) ==
    IF Dimensions(buf) < rank THEN pad_to_rank(embed(buf, Dimensions(buf), 0), rank)
    ELSE buf

WithDim(buf, d, extent, stride) ==
    [buf EXCEPT !.dim[d + 1] = [min |-> buf.dim[d + 1].min,
                                extent |-> extent, stride |-> stride]]

\* The loop of broadcast_shapes from dimension d on; `fatal' where it ends
\* in LOG(FATAL).
RECURSIVE BroadcastLoop(_, _, _, _)
BroadcastLoop(a, b, d, rank) ==
    IF d >= rank THEN [a |-> a, b |-> b, fatal |-> FALSE]
    ELSE IF Dim(a, d).extent = 1
         THEN BroadcastLoop(WithDim(a, d, Dim(b, d).extent, 0), b, d + 1, rank)
    ELSE IF Dim(b, d).extent = 1
         THEN BroadcastLoop(a, WithDim(b, d, Dim(a, d).extent, 0), d + 1, rank)
    ELSE [a |-> a, b |-> b, fatal |-> TRUE]

broadcast_shapes(a, b, rank) ==
    BroadcastLoop(pad_to_rank(a, rank), pad_to_rank(b, rank), 0, rank)

\* Dense tensors of rank 1 to 4 with min 0.
TensorExtents == {1, 2, 3}
DenseShape(extents) == [i \in 1..Len(extents) |->
                           [min |-> 0, extent |-> extents[i], kind |-> "dense"]]
Tensors ==
    UNION {{[host |-> 0, dim |-> Layout(DenseShape(extents), 1)]
              : extents \in [1..r -> TensorExtents]} : r \in 1..BinaryRank}

BroadcastInit ==
    /\ pc = "ready"
    /\ call = NoCall
    /\ ret = NoRet
    /\ bufs \in [a : Tensors, b : Tensors]
    /\ kernels = <<>>

CallBroadcastShapes ==
    /\ pc = "ready"
    /\ LET r == broadcast_shapes(bufs.a, bufs.b, BinaryRank)
       IN /\ call' = [fn |-> "broadcast_shapes", a |-> bufs.a, b |-> bufs.b,
                      rank |-> BinaryRank]
          /\ bufs' = [a |-> r.a, b |-> r.b]
          /\ pc' = IF r.fatal THEN "fatal" ELSE "done"
    /\ UNCHANGED <<ret, kernels>>

BroadcastNext == CallBroadcastShapes

SpecBroadcast == BroadcastInit /\ [][BroadcastNext]_vars

(***************************************************************************)
(* Claims about broadcasting.                                              *)
(***************************************************************************)
IsBroadcastCall == pc # "ready" /\ call.fn = "broadcast_shapes"

\* The extent of dimension d of a view once padded to a higher rank.
ExtentAt(buf, d) == IF d < Dimensions(buf) THEN Dim(buf, d).extent ELSE 1

Mismatched(d) ==
    /\ ExtentAt(call.a, d) # ExtentAt(call.b, d)
    /\ ExtentAt(call.a, d) # 1
    /\ ExtentAt(call.b, d) # 1

SameExtents == \A d \in 0..(call.rank - 1) : ExtentAt(call.a, d) = ExtentAt(call.b, d)

\* C3: broadcast_shapes ends in the fatal error iff some dimension below
\* rank has differing extents neither of which is 1; operands with equal
\* extents in every dimension are accepted and keep their extents.
C3_FatalIffMismatch ==
    IsBroadcastCall =>
      /\ pc = "fatal" <=> \E d \in 0..(call.rank - 1) : Mismatched(d)
      /\ SameExtents =>
           /\ pc = "done"
           /\ \A d \in 0..(call.rank - 1) :
                /\ Dim(bufs.a, d).extent = ExtentAt(call.a, d)
                /\ Dim(bufs.b, d).extent = ExtentAt(call.b, d)

(***************************************************************************)
(* requantize.  The views are the byte ranges [begin, end) they span; the  *)
(* scales are powers of two, 1 / 2^k, so that the float and double         *)
(* arithmetic of add() on them is exact.  A kernel returns a status, 0 for *)
(* success; `kernels' lists the kernels and buffer copies that ran.        *)
(***************************************************************************)
MaxAddr == 3

is_alias(a, b) == ~(a.begin >= b.end \/ a.end <= b.begin)

\* The double of a scale 1 / 2^k.
ScaleToDouble(scale) == DoublePow2(-scale.k)

\* x / y and x * y for a double y that is a power of two.
DoubleDivPow2(x, y) == [x EXCEPT !.exp = x.exp - (y.exp - 1)]
DoubleMulPow2(x, y) == [x EXCEPT !.exp = x.exp + (y.exp - 1)]

LeftShift == 20

\* add() up to its kernel call: the kernel's fixed-point arguments, and in
\* `asserted' whether every assertion on the way holds.
add(in1q, in2q, in2sign, outq, activation) ==
    LET in1_scale == ScaleToDouble(in1q.scale)
        in2_scale == ScaleToDouble(in2q.scale)
        out_scale == ScaleToDouble(outq.scale)
        max_input_scale == IF in1q.scale.k <= in2q.scale.k THEN in1_scale ELSE in2_scale
        twice_max_input_scale == DoubleMulPow2(max_input_scale, DoublePow2(1))
        real_in1_multiplier == DoubleDivPow2(in1_scale, twice_max_input_scale)
        real_in2_multiplier == DoubleDivPow2(in2_scale, twice_max_input_scale)
        real_out_multiplier ==
            DoubleDivPow2(twice_max_input_scale,
                          DoubleMulPow2(out_scale, DoublePow2(LeftShift)))
        in1 == get_quantized_mul_and_shift_smaller_than_one(real_in1_multiplier, DefaultBits)
        in2 == get_quantized_mul_and_shift_smaller_than_one(real_in2_multiplier, DefaultBits)
        out == get_quantized_mul_and_shift_smaller_than_one(real_out_multiplier, DefaultBits)
        out_range == get_output_range(activation, outq)
    IN [in1_multiplier |-> in1.multiplier, in1_shift |-> -in1.shift,
        in2_multiplier |-> in2.multiplier * in2sign, in2_shift |-> -in2.shift,
        out_multiplier |-> out.multiplier, out_shift |-> -out.shift,
        out_min |-> out_range.min, out_max |-> out_range.max,
        asserted |-> /\ in1.pre /\ in1.post /\ in2.pre /\ in2.post
                     /\ out.pre /\ out.post /\ out_range.asserted]

\* A CHECK that lets a non-zero status pass.
Checked_status_ignored(status) == "done"

\* How a call that runs one kernel ends: CHECK(0 == kernel(...)).
Checked(status) == IF status = 0 THEN "done" ELSE "fatal"

\* As the function below, without the test for aliased views.
requantize_always_copies(in, inq, out, outq, status) ==
    IF inq = outq
    THEN [pc |-> "done", kernels |-> <<[kernel |-> "copy_from", status |-> 0]>>]
    ELSE [pc |-> Checked(status),
          kernels |-> <<[kernel |-> "add_uint8_uint8", status |-> status]>>]

\* How requantize ends and what it ran; status is what the add kernel
\* returns if it is reached.
requantize(in, inq, out, outq, status) ==
    IF inq = outq
    THEN IF is_alias(in, out)
         THEN [pc |-> "done", kernels |-> <<>>]
         ELSE [pc |-> "done", kernels |-> <<[kernel |-> "copy_from", status |-> 0]>>]
    ELSE IF add(inq, inq, 0, outq, "None").asserted
         THEN [pc |-> Checked(status),
               kernels |-> <<[kernel |-> "add_uint8_uint8", status |-> status]>>]
         ELSE [pc |-> "assert", kernels |-> <<>>]

ByteRanges == {r \in [begin : 0..MaxAddr, end : 0..MaxAddr] : r.begin < r.end}
PowerOfTwoScales == [n : {1}, k : {6, 7}]
QuantizationInfos == [scale : PowerOfTwoScales, zero : {0, 128}]
Statuses == {0, 1}

RequantizeInit ==
    /\ pc = "ready"
    /\ call = NoCall
    /\ ret = NoRet
    /\ bufs \in [in : ByteRanges, out : ByteRanges]
    /\ kernels = <<>>

CallRequantize ==
    /\ pc = "ready"
    /\ \E inq \in QuantizationInfos, outq \in QuantizationInfos, status \in Statuses :
         LET r == requantize(bufs.in, inq, bufs.out, outq, status)
         IN /\ call' = [fn |-> "requantize", inq |-> inq, outq |-> outq]
            /\ kernels' = r.kernels
            /\ pc' = r.pc
    /\ UNCHANGED <<ret, bufs>>

RequantizeNext == CallRequantize

SpecRequantize == RequantizeInit /\ [][RequantizeNext]_vars

(***************************************************************************)
(* Claims about requantize.                                                *)
(***************************************************************************)
IsRequantizeCall == pc # "ready" /\ call.fn = "requantize"
Aliased == is_alias(bufs.in, bufs.out)
PlainCopy == Len(kernels) = 1 /\ kernels[1].kernel = "copy_from"
RanAdd == Len(kernels) = 1 /\ kernels[1].kernel = "add_uint8_uint8"

\* C9 (as amended): requantize is a plain copy iff inq = outq and the views
\* are not aliased; it writes nothing iff inq = outq and the views are
\* aliased; with inq # outq it runs the add kernel, aliased or not.
C9_CopyIffSameQuantizationUnaliased ==
    IsRequantizeCall =>
      /\ PlainCopy <=> (call.inq = call.outq /\ ~Aliased)
      /\ kernels = <<>> <=> (call.inq = call.outq /\ Aliased)
      /\ call.inq # call.outq => RanAdd

\* An in-place requantize between two different quantizations.
C9_Witness ==
    /\ IsRequantizeCall /\ Aliased /\ call.inq # call.outq
    /\ bufs.in = bufs.out
    /\ RanAdd /\ pc = "done"

\* C9 as stated: a plain copy iff inq = outq and not aliased, and nothing
\* written whenever the views are aliased.
C9_AsStated ==
    IsRequantizeCall =>
      /\ PlainCopy <=> (call.inq = call.outq /\ ~Aliased)
      /\ Aliased => kernels = <<>>

(***************************************************************************)
(* Depthwise convolution.  A tensor is its element type, the extent of its *)
(* channel dimension (dimension 0) and its quantization.                   *)
(***************************************************************************)
MaxDepthMultiplier == 3
MaxInputChannels == 2

get_quantized_multiply_params(a, b, c) ==
    LET a_scale == ScaleToDouble(a.scale)
        b_scale == ScaleToDouble(b.scale)
        c_scale == ScaleToDouble(c.scale)
        ab_scale == DoubleMulPow2(a_scale, b_scale)
        result == get_quantized_mul_and_shift_smaller_than_one(
                      DoubleDivPow2(ab_scale, c_scale), DefaultBits)
    IN [a_zero |-> a.zero, b_zero |-> b.zero, c_zero |-> c.zero,
        c |-> [multiplier |-> result.multiplier, shift |-> -result.shift],
        asserted |-> result.pre /\ result.post]

\* As the wrapper below, with the test for depth_multiplier = 1 made first.
depthwise_conv_uint8_dm1_first(depth_multiplier, output_extent) ==
    IF depth_multiplier = 1 THEN "depthwise_conv_dm1_uint8"
    ELSE IF depth_multiplier >= output_extent THEN "depthwise_conv_broadcast_uint8"
    ELSE "depthwise_conv_uint8"

\* The variant the wrapper dispatches to; output_extent is
\* output->dim[0].extent.
depthwise_conv_uint8(depth_multiplier, output_extent) ==
    IF depth_multiplier >= output_extent THEN "depthwise_conv_broadcast_uint8"
    ELSE IF depth_multiplier = 1 THEN "depthwise_conv_dm1_uint8"
    ELSE "depthwise_conv_uint8"

\* How DepthwiseConv2DOp::execute ends and what it ran; status is what the
\* kernel returns if it is reached.
DepthwiseConv2DOp_execute(in, filt, out, depth_multiplier_, activation_, status) ==
    IF in.type = "uint8" /\ filt.type = "uint8" /\ out.type = "uint8"
    THEN LET params == get_quantized_multiply_params(in.quantization, filt.quantization,
                                                     out.quantization)
             output_range == get_output_range(activation_, out.quantization)
         IN IF depth_multiplier_ * in.extent # out.extent THEN [pc |-> "assert", kernels |-> <<>>]
            ELSE IF ~params.asserted THEN [pc |-> "assert", kernels |-> <<>>]
            ELSE IF ~output_range.checked THEN [pc |-> "fatal", kernels |-> <<>>]
            ELSE IF ~output_range.asserted THEN [pc |-> "assert", kernels |-> <<>>]
            ELSE [pc |-> Checked(status),
                  kernels |-> <<[kernel |-> depthwise_conv_uint8(depth_multiplier_, out.extent),
                                 status |-> status]>>]
    ELSE [pc |-> "fatal", kernels |-> <<>>]

Types == {"uint8", "int32"}
DepthMultipliers == 1..MaxDepthMultiplier
DepthwiseQuantizations == [scale : PowerOfTwoScales, zero : {128}]
DepthwiseActivations == {"None", "Relu6"}
InputTensors ==
    [type : Types, extent : 1..MaxInputChannels, quantization : DepthwiseQuantizations]
OutputTensors ==
    [type : Types, extent : 1..(MaxDepthMultiplier * MaxInputChannels),
     quantization : DepthwiseQuantizations]
FilterTensors == [type : Types, quantization : DepthwiseQuantizations]

DepthwiseInit ==
    /\ pc = "ready"
    /\ call = NoCall
    /\ ret = NoRet
    /\ bufs \in [in : InputTensors, filt : FilterTensors, out : OutputTensors]
    /\ kernels = <<>>

ExecuteDepthwiseConv2DOp ==
    /\ pc = "ready"
    /\ \E depth_multiplier_ \in DepthMultipliers, activation_ \in DepthwiseActivations,
          status \in Statuses :
         LET r == DepthwiseConv2DOp_execute(bufs.in, bufs.filt, bufs.out,
                                            depth_multiplier_, activation_, status)
         IN /\ call' = [fn |-> "DepthwiseConv2DOp::execute",
                        depth_multiplier |-> depth_multiplier_,
                        activation |-> activation_]
            /\ kernels' = r.kernels
            /\ pc' = r.pc
    /\ UNCHANGED <<ret, bufs>>

\* The wrapper called on its own, on uint8 buffers.
CallDepthwiseConvUint8 ==
    /\ pc = "ready"
    /\ bufs.in.type = "uint8" /\ bufs.filt.type = "uint8" /\ bufs.out.type = "uint8"
    /\ \E depth_multiplier \in DepthMultipliers, status \in Statuses :
         /\ call' = [fn |-> "depthwise_conv_uint8", depth_multiplier |-> depth_multiplier]
         /\ kernels' = <<[kernel |-> depthwise_conv_uint8(depth_multiplier, bufs.out.extent),
                          status |-> status]>>
         /\ pc' = Checked(status)
    /\ UNCHANGED <<ret, bufs>>

DepthwiseNext ==
    \/ ExecuteDepthwiseConv2DOp
    \/ CallDepthwiseConvUint8

SpecDepthwise == DepthwiseInit /\ [][DepthwiseNext]_vars

(***************************************************************************)
(* Claims about the depthwise dispatch.                                    *)
(***************************************************************************)
IsDepthwiseExecute == pc # "ready" /\ call.fn = "DepthwiseConv2DOp::execute"
IsDepthwiseDispatch == pc # "ready" /\ call.fn = "depthwise_conv_uint8"
DepthwiseVariants ==
    {"depthwise_conv_broadcast_uint8", "depthwise_conv_dm1_uint8", "depthwise_conv_uint8"}
AllUint8 == bufs.in.type = "uint8" /\ bufs.filt.type = "uint8" /\ bufs.out.type = "uint8"
ChannelsAgree == call.depth_multiplier * bufs.in.extent = bufs.out.extent
OneVariantRan == Len(kernels) = 1 /\ kernels[1].kernel \in DepthwiseVariants

\* C10 (as amended): an execute on uint8 tensors whose channel extents agree
\* with the depth multiplier invokes exactly one of the three variants:
\* broadcast whenever depth_multiplier >= the output channel extent, dm1
\* when depth_multiplier = 1 and is less than the output channel extent,
\* general otherwise; the wrapper alone chooses the same way.
C10_DispatchBroadcastFirst ==
    /\ (IsDepthwiseExecute /\ AllUint8 /\ ChannelsAgree) => OneVariantRan
    /\ ((IsDepthwiseExecute \/ IsDepthwiseDispatch) /\ kernels # <<>>) =>
         /\ OneVariantRan
         /\ kernels[1].kernel =
              IF call.depth_multiplier >= bufs.out.extent
              THEN "depthwise_conv_broadcast_uint8"
              ELSE IF call.depth_multiplier = 1 THEN "depthwise_conv_dm1_uint8"
              ELSE "depthwise_conv_uint8"

\* An execute with depth_multiplier = 1 and a single output channel, which
\* runs the broadcast variant.
C10_Witness ==
    /\ IsDepthwiseExecute /\ AllUint8 /\ ChannelsAgree
    /\ call.depth_multiplier = 1 /\ bufs.out.extent = 1
    /\ OneVariantRan /\ kernels[1].kernel = "depthwise_conv_broadcast_uint8"
    /\ pc = "done"

\* C10 as stated: exactly one variant, dm1 whenever depth_multiplier = 1,
\* broadcast whenever depth_multiplier >= the output channel extent, general
\* otherwise.
C10_AsStated ==
    (IsDepthwiseExecute /\ AllUint8 /\ ChannelsAgree) =>
      /\ OneVariantRan
      /\ call.depth_multiplier = 1 => kernels[1].kernel = "depthwise_conv_dm1_uint8"
      /\ call.depth_multiplier >= bufs.out.extent =>
           kernels[1].kernel = "depthwise_conv_broadcast_uint8"
      /\ (call.depth_multiplier # 1 /\ call.depth_multiplier < bufs.out.extent) =>
           kernels[1].kernel = "depthwise_conv_uint8"

(***************************************************************************)
(* PadOp::execute on uint8 storage.  `mem' is the storage, a byte per      *)
(* address; a view addresses it as Halide buffers do.  The output is a     *)
(* dense rank-2 view at address 0.  The input is either a dense view of    *)
(* storage of its own or, in place, a crop of the output's storage laid    *)
(* out so that, once translated by the padding, an input coordinate and     *)
(* the same output coordinate name the same byte.                          *)
(***************************************************************************)
MaxPadding == 1
PadRank == 2
FastInputExtent == 3
FastOutputExtent == 4

DimMax(buf, d) == Dim(buf, d).min + Dim(buf, d).extent - 1

\* Buffer::translate(d, delta)
translate(buf, d, delta) == [buf EXCEPT !.dim[d + 1].min = @ + delta]

\* Buffer::cropped(d, min, extent), and Buffer::crop which does it in place.
cropped(buf, d, min, extent) ==
    [host |-> buf.host + (min - Dim(buf, d).min) * Dim(buf, d).stride,
     dim |-> [buf.dim EXCEPT ![d + 1].min = min, ![d + 1].extent = extent]]

\* Buffer::begin() and Buffer::end(), in elements of one byte.
RECURSIVE SpanOf(_, _)
SpanOf(dims, positive) ==
    IF dims = <<>> THEN 0
    ELSE (IF (Head(dims).stride > 0) = positive
          THEN Head(dims).stride * (Head(dims).extent - 1) ELSE 0)
         + SpanOf(Tail(dims), positive)
ByteRange(buf) ==
    [begin |-> buf.host + SpanOf(buf.dim, FALSE),
     end |-> buf.host + SpanOf(buf.dim, TRUE) + 1]

InBounds(buf, idx) ==
    \A d \in 0..(Dimensions(buf) - 1) :
        idx[d + 1] >= Dim(buf, d).min /\ idx[d + 1] <= DimMax(buf, d)

Addresses(buf) == {AddressOf(buf, idx) : idx \in Coords(buf)}

\* The coordinates of the element of buf at address a, for a view whose
\* strides are positive and grow with the dimension, each dimension lying
\* within one step of the next (a crop of dense storage).
CoordsAt(buf, a) ==
    [i \in 1..Dimensions(buf) |->
        LET offset == a - buf.host
            within == IF i < Dimensions(buf) THEN offset % buf.dim[i + 1].stride ELSE offset
        IN buf.dim[i].min + (within \div buf.dim[i].stride)]

\* fill_uint8(value, buf): every element of buf becomes value.
fill_uint8(mem, value, buf) ==
    LET written == Addresses(buf)
    IN [a \in DOMAIN mem |-> IF a \in written THEN value ELSE mem[a]]

\* copy_uint8_uint8(in, pad_value, out): every element of out becomes the
\* element of in at the same coordinates, or pad_value where in has none.
copy_uint8_uint8(mem, in, pad_value, out) ==
    LET written == Addresses(out)
    IN [a \in DOMAIN mem |->
          IF a \in written
          THEN LET idx == CoordsAt(out, a)
               IN IF InBounds(in, idx) THEN mem[AddressOf(in, idx)] ELSE pad_value
          ELSE mem[a]]

\* CHECK(0 == kernel(...)) as one step of an execute: st is the execute's
\* state so far, after is the storage the kernel leaves; the kernel call
\* numbered fail_at returns a non-zero status.
RunKernel(st, kernel, after, fail_at) ==
    IF st.pc # "running" THEN st
    ELSE IF Len(st.kernels) + 1 = fail_at
    THEN [st EXCEPT !.kernels = Append(@, [kernel |-> kernel, status |-> 1]),
                    !.pc = "fatal"]
    ELSE [st EXCEPT !.kernels = Append(@, [kernel |-> kernel, status |-> 0]),
                    !.mem = after]

\* One iteration of the loop over d of PadOp::execute.
PadDim(st, d, pad_value, fail_at) ==
    LET input_min == Dim(st.in, d).min
        output_min == Dim(st.out, d).min
        input_max == DimMax(st.in, d)
        output_max == DimMax(st.out, d)
        before == cropped(st.out, d, output_min, input_min - output_min)
        s1 == IF output_min < input_min
              THEN RunKernel(st, "fill_uint8", fill_uint8(st.mem, pad_value, before), fail_at)
              ELSE st
        input_min1 == IF output_min < input_min THEN input_min ELSE output_min
        after == cropped(st.out, d, input_max + 1, output_max - input_max)
        s2 == IF output_max > input_max
              THEN RunKernel(s1, "fill_uint8", fill_uint8(s1.mem, pad_value, after), fail_at)
              ELSE s1
        input_max1 == IF output_max > input_max THEN input_max ELSE output_max
    IN IF s2.pc # "running" THEN s2
       ELSE [s2 EXCEPT !.out = cropped(@, d, input_min1, input_max1 - input_min1 + 1)]

\* for (int d = ...; d >= fill_min_dim; d--)
RECURSIVE PadLoop(_, _, _, _, _)
PadLoop(st, d, fill_min_dim, pad_value, fail_at) ==
    IF d < fill_min_dim \/ st.pc # "running" THEN st
    ELSE PadLoop(PadDim(st, d, pad_value, fail_at), d - 1, fill_min_dim, pad_value, fail_at)

\* The fills and the copy, from fill_min_dim on.
PadFillAndCopy(input_buf, output_buf, mem, pad_value, fill_min_dim, fail_at) ==
    LET st == PadLoop([in |-> input_buf, out |-> output_buf, mem |-> mem,
                       kernels |-> <<>>, pc |-> "running"],
                      Dimensions(output_buf) - 1, fill_min_dim, pad_value, fail_at)
    IN IF st.pc # "running" THEN st
       ELSE IF \/ ~is_alias(ByteRange(st.in), ByteRange(st.out))
               \/ Dim(st.in, 0).min > Dim(st.out, 0).min
               \/ DimMax(st.in, 0) < DimMax(st.out, 0)
       THEN RunKernel(st, "copy_uint8_uint8",
                      copy_uint8_uint8(st.mem, st.in, pad_value, st.out), fail_at)
       ELSE st

RECURSIVE TranslateAll(_, _, _)
TranslateAll(buf, padding, d) ==
    IF d >= Len(padding) THEN buf
    ELSE TranslateAll(translate(buf, d, padding[d + 1]), padding, d + 1)

\* As the function below, the copy made only when the views are not aliased.
PadOp_execute_copy_unless_aliased(in, out, padding, pad_value, mem, fail_at) ==
    IF out.bytes = 1
    THEN LET input_buf == TranslateAll(in.buf, padding, 0)
             fill_min_dim ==
                 IF Dim(input_buf, 0).extent = FastInputExtent
                    /\ Dim(out.buf, 0).extent = FastOutputExtent THEN 1 ELSE 0
             st == PadLoop([in |-> input_buf, out |-> out.buf, mem |-> mem,
                            kernels |-> <<>>, pc |-> "running"],
                           Dimensions(out.buf) - 1, fill_min_dim, pad_value, fail_at)
             r == IF st.pc # "running" THEN st
                  ELSE IF ~is_alias(ByteRange(st.in), ByteRange(st.out))
                  THEN RunKernel(st, "copy_uint8_uint8",
                                 copy_uint8_uint8(st.mem, st.in, pad_value, st.out), fail_at)
                  ELSE st
         IN [pc |-> IF r.pc = "running" THEN "done" ELSE r.pc,
             kernels |-> r.kernels, mem |-> r.mem]
    ELSE [pc |-> "fatal", kernels |-> <<>>, mem |-> mem]

\* How PadOp::execute ends, what it ran and the storage it leaves.
PadOp_execute(in, out, padding, pad_value, mem, fail_at) ==
    IF out.bytes = 1
    THEN LET input_buf == TranslateAll(in.buf, padding, 0)
             fill_min_dim ==
                 IF Dim(input_buf, 0).extent = FastInputExtent
                    /\ Dim(out.buf, 0).extent = FastOutputExtent THEN 1 ELSE 0
             r == PadFillAndCopy(input_buf, out.buf, mem, pad_value, fill_min_dim, fail_at)
         IN [pc |-> IF r.pc = "running" THEN "done" ELSE r.pc,
             kernels |-> r.kernels, mem |-> r.mem]
    ELSE [pc |-> "fatal", kernels |-> <<>>, mem |-> mem]

MaxPadKernels == 2 * PadRank + 1
PadValues == {128}
ElementSizes == {1, 4}
Paddings == [1..PadRank -> (-MaxPadding)..MaxPadding]
\* Extents of dimension 0, the channels, and of the dimensions above it.
PadInputExtents ==
    {e \in [1..PadRank -> {1, 2, FastInputExtent}] :
        e[1] >= 2 /\ \A i \in 2..PadRank : e[i] <= 2}
PadOutputExtents ==
    {e \in [1..PadRank -> {2, 3, FastOutputExtent}] :
        e[1] = FastOutputExtent /\ \A i \in 2..PadRank : e[i] <= 3}
Dense(host, extents) ==
    [host |-> host,
     dim |-> Layout([i \in 1..Len(extents) |->
                       [min |-> 0, extent |-> extents[i], kind |-> "dense"]], 1)]
PadOutputs == {Dense(0, e) : e \in PadOutputExtents}
InputBase == FastOutputExtent * Pow2(2 * (PadRank - 1))
MemSize == InputBase + FastInputExtent * Pow2(PadRank - 1)
\* The in-place input: a crop of the output at the padding.
InPlace(out, extents, padding) ==
    [host |-> AddressOf(out, padding),
     dim |-> [i \in 1..PadRank |->
                [min |-> 0, extent |-> extents[i], stride |-> out.dim[i].stride]]]
Fits(out, extents, padding) ==
    \A i \in 1..PadRank :
        padding[i] >= 0 /\ padding[i] + extents[i] <= out.dim[i].extent
InitialMem == [a \in 0..(MemSize - 1) |-> 200 + a]
\* The translated input reaches the output or lies right next to it, so that
\* the border regions filled lie inside the output: a padding that moves the
\* input further off makes the fill write outside the output's storage.
Touches(out, extents, padding) ==
    \A i \in 1..PadRank :
        padding[i] + extents[i] >= 0 /\ padding[i] <= out.dim[i].extent
PadSetups ==
    {[in |-> [buf |-> Dense(InputBase, su[1])], out |-> [buf |-> su[2], bytes |-> su[4]],
      padding |-> su[3], pad_value |-> su[5], aliased |-> FALSE, mem |-> InitialMem]
       : su \in {x \in PadInputExtents \X PadOutputs \X Paddings \X ElementSizes \X PadValues :
                   Touches(x[2], x[1], x[3])}}
    \cup
    {[in |-> [buf |-> InPlace(su[2], su[1], su[3])], out |-> [buf |-> su[2], bytes |-> su[4]],
      padding |-> su[3], pad_value |-> su[5], aliased |-> TRUE, mem |-> InitialMem]
       : su \in {x \in PadInputExtents \X PadOutputs \X Paddings \X ElementSizes \X PadValues :
                   Fits(x[2], x[1], x[3])}}

PadInit ==
    /\ pc = "ready"
    /\ call = NoCall
    /\ ret = NoRet
    /\ bufs \in PadSetups
    /\ kernels = <<>>

ExecutePadOp ==
    /\ pc = "ready"
    /\ \E fail_at \in 0..MaxPadKernels :
         LET r == PadOp_execute(bufs.in, bufs.out, bufs.padding, bufs.pad_value,
                                bufs.mem, fail_at)
         IN /\ fail_at <= Len(r.kernels)
            /\ call' = [fn |-> "PadOp::execute", mem |-> bufs.mem, fail_at |-> fail_at]
            /\ kernels' = r.kernels
            /\ bufs' = [bufs EXCEPT !.mem = r.mem]
            /\ pc' = r.pc
    /\ UNCHANGED ret

PadNext == ExecutePadOp

SpecPad == PadInit /\ [][PadNext]_vars

(***************************************************************************)
(* Claims about PadOp::execute.                                            *)
(***************************************************************************)
IsPadExecute == pc # "ready" /\ call.fn = "PadOp::execute"
TranslatedInput == TranslateAll(bufs.in.buf, bufs.padding, 0)
IsFastPad ==
    /\ IsPadExecute /\ bufs.out.bytes = 1
    /\ Dim(TranslatedInput, 0).extent = FastInputExtent
    /\ Dim(bufs.out.buf, 0).extent = FastOutputExtent
\* The generic path on the same call: every dimension filled, then the copy.
GenericPad ==
    PadFillAndCopy(TranslatedInput, bufs.out.buf, call.mem, bufs.pad_value, 0, 0)
\* What a pad is to leave at an output coordinate.
Padded(idx) ==
    IF InBounds(TranslatedInput, idx)
    THEN call.mem[AddressOf(TranslatedInput, idx)] ELSE bufs.pad_value

\* C11: a pad of a 3-channel input into a 4-channel output that runs to its
\* end leaves the storage the generic path leaves, and that is the input
\* surrounded by the pad value, aliased or not.
C11_FastPadEqualsGenericPad ==
    (IsFastPad /\ pc = "done") =>
      /\ bufs.mem = GenericPad.mem
      /\ \A idx \in Coords(bufs.out.buf) :
           bufs.mem[AddressOf(bufs.out.buf, idx)] = Padded(idx)

\* An in-place pad of 3 channels into 4 where the generic path fills
\* channel 3 and the fast path leaves it to the copy.
C11_Witness ==
    /\ IsFastPad /\ pc = "done" /\ bufs.aliased
    /\ bufs.mem # call.mem
    /\ GenericPad.kernels[Len(GenericPad.kernels)].kernel = "fill_uint8"
    /\ kernels[Len(kernels)].kernel = "copy_uint8_uint8"

(***************************************************************************)
(* ReshapeOp::execute.  A tensor is a view whose host is a byte address,   *)
(* and the size in bytes of its elements; input and output have the same   *)
(* element type.  `ndebug' tells whether the build leaves assertions out:  *)
(* with them a failed assertion ends the call, without them the call goes  *)
(* on.                                                                     *)
(***************************************************************************)
MaxHost == 8

\* begin() and end() of a view as byte addresses.
BytesOf(buf, bytes) ==
    [begin |-> buf.host + SpanOf(buf.dim, FALSE) * bytes,
     end |-> buf.host + (SpanOf(buf.dim, TRUE) + 1) * bytes]

\* As the function below, the bytes copied whether the views alias or not.
ReshapeOp_execute_always_copies(in, out, bytes, ndebug) ==
    LET input_buf == in
        output_buf == out
        output_size == NumberOfElements(output_buf) * bytes
    IN IF ~ndebug /\ NumberOfElements(input_buf) # NumberOfElements(output_buf)
       THEN [pc |-> "assert", kernels |-> <<>>]
       ELSE [pc |-> "done",
             kernels |-> <<[kernel |-> "memcpy", dst |-> output_buf.host,
                            src |-> input_buf.host, size |-> output_size]>>]

\* How ReshapeOp::execute ends and what it copied.
ReshapeOp_execute(in, out, bytes, ndebug) ==
    LET input_buf == in
        output_buf == out
        output_size == NumberOfElements(output_buf) * bytes
        a == BytesOf(input_buf, bytes)
        b == BytesOf(output_buf, bytes)
    IN IF ~ndebug /\ NumberOfElements(input_buf) # NumberOfElements(output_buf)
       THEN [pc |-> "assert", kernels |-> <<>>]
       ELSE IF is_alias(a, b)
       THEN [pc |-> IF ~ndebug /\ (a.begin # b.begin \/ a.end # b.end)
                    THEN "assert" ELSE "done",
             kernels |-> <<>>]
       ELSE [pc |-> "done",
             kernels |-> <<[kernel |-> "memcpy", dst |-> output_buf.host,
                            src |-> input_buf.host, size |-> output_size]>>]

ReshapeExtents == {<<2>>, <<3>>, <<4>>, <<2, 2>>, <<1, 3>>, <<4, 1>>}
ReshapeHosts == {h \in 0..MaxHost : h % 4 = 0} \cup {2}
ReshapeViews == {Dense(h, e) : h \in ReshapeHosts, e \in ReshapeExtents}

ReshapeInit ==
    /\ pc = "ready"
    /\ call = NoCall
    /\ ret = NoRet
    /\ bufs \in [in : ReshapeViews, out : ReshapeViews, bytes : ElementSizes,
                 ndebug : BOOLEAN]
    /\ kernels = <<>>

ExecuteReshapeOp ==
    /\ pc = "ready"
    /\ LET r == ReshapeOp_execute(bufs.in, bufs.out, bufs.bytes, bufs.ndebug)
       IN /\ call' = [fn |-> "ReshapeOp::execute"]
          /\ kernels' = r.kernels
          /\ pc' = r.pc
    /\ UNCHANGED <<ret, bufs>>

ReshapeNext == ExecuteReshapeOp

SpecReshape == ReshapeInit /\ [][ReshapeNext]_vars

(***************************************************************************)
(* Claims about ReshapeOp::execute.                                        *)
(***************************************************************************)
IsReshapeExecute == pc # "ready" /\ call.fn = "ReshapeOp::execute"
EqualCounts == NumberOfElements(bufs.in) = NumberOfElements(bufs.out)
InputBytes == BytesOf(bufs.in, bufs.bytes)
OutputBytes == BytesOf(bufs.out, bufs.bytes)
SameBytes == InputBytes = OutputBytes
Overlapping == is_alias(InputBytes, OutputBytes)
FlatCopy ==
    /\ Len(kernels) = 1
    /\ kernels[1] = [kernel |-> "memcpy", dst |-> bufs.out.host, src |-> bufs.in.host,
                     size |-> NumberOfElements(bufs.out) * bufs.bytes]
\* No memcpy between byte ranges that overlap.
CopiesAreDisjoint ==
    \A i \in 1..Len(kernels) :
        ~is_alias([begin |-> kernels[i].src, end |-> kernels[i].src + kernels[i].size],
                  [begin |-> kernels[i].dst, end |-> kernels[i].dst + kernels[i].size])

\* C15 (as amended): for equal element counts ReshapeOp::execute writes
\* nothing whenever the byte ranges of the two views overlap (identical or
\* not; a build with assertions stops on ranges that overlap without being
\* identical), makes one flat copy of element_count * element_size bytes
\* from input to output exactly when the ranges are disjoint, and never
\* copies between byte ranges that overlap.
C15_ReshapeCopiesIffDisjoint ==
    (IsReshapeExecute /\ EqualCounts) =>
      /\ Overlapping => kernels = <<>>
      /\ SameBytes => pc = "done"
      /\ (Overlapping /\ ~SameBytes) => pc = (IF bufs.ndebug THEN "done" ELSE "assert")
      /\ ~Overlapping => (FlatCopy /\ pc = "done")
      /\ CopiesAreDisjoint

\* Views of equal counts whose byte ranges overlap without being identical:
\* nothing is copied.
C15_Witness ==
    /\ IsReshapeExecute /\ EqualCounts
    /\ Overlapping /\ ~SameBytes
    /\ bufs.ndebug /\ pc = "done" /\ kernels = <<>>

\* C15 as stated: nothing written when the byte ranges are identical, a flat
\* copy in every other case, and no copy between overlapping ranges.
C15_AsStated ==
    (IsReshapeExecute /\ EqualCounts) =>
      /\ SameBytes => kernels = <<>>
      /\ ~SameBytes => FlatCopy
      /\ CopiesAreDisjoint

(***************************************************************************)
(* ConcatenationOp.  The tensors are rank-2 views of uint8 storage `mem';  *)
(* the output is dense at address 0 and its extent along the axis is the   *)
(* sum of the inputs' extents.  Each input is dense in storage of its own  *)
(* or, in place, the crop of the output's storage it is to be written to.  *)
(***************************************************************************)
MaxInputs == 2
ConcatRank == 2

\* crop_to_union(a, b): both cropped, dimension by dimension, to the range
\* they share.
RECURSIVE CropToUnionFrom(_, _, _)
CropToUnionFrom(a, b, d) ==
    IF d >= Dimensions(a) THEN [a |-> a, b |-> b]
    ELSE LET min == Max(Dim(a, d).min, Dim(b, d).min)
             max == Min(DimMax(a, d), DimMax(b, d))
         IN CropToUnionFrom(cropped(a, d, min, max - min + 1),
                            cropped(b, d, min, max - min + 1), d + 1)
crop_to_union(a, b) == CropToUnionFrom(a, b, 0)

\* The offset ConcatenationOp::map_bounds adds along the axis for an input.
RECURSIVE ConcatenationOp_map_bounds(_, _, _)
ConcatenationOp_map_bounds(inputs, axis_, input_idx) ==
    IF input_idx = 0 THEN 0
    ELSE ConcatenationOp_map_bounds(inputs, axis_, input_idx - 1)
         + Dim(inputs[input_idx].buf, axis_).extent

\* Buffer::copy_from on two views of the same coordinates.
copy_from(mem, in, out) ==
    LET written == Addresses(out)
    IN [a \in DOMAIN mem |->
          IF a \in written THEN mem[AddressOf(in, CoordsAt(out, a))] ELSE mem[a]]

\* The byte add_uint8_uint8 writes for an input byte x when it requantizes:
\* (x - zero_in) * scale_in / scale_out + zero_out, rounded and clamped.
RequantizedValue(x, inq, outq) ==
    LET shift == outq.scale.k - inq.scale.k
        centred == x - inq.zero
        scaled == IF shift >= 0 THEN centred * Pow2(shift)
                  ELSE RoundDiv(centred, [n |-> Pow2(-shift), k |-> 0])
    IN Clamp(outq.zero + scaled, 0, 255)

\* add_uint8_uint8 as requantize calls it: in read with inq, out written
\* with outq.
add_uint8_uint8(mem, in, inq, out, outq) ==
    LET written == Addresses(out)
    IN [a \in DOMAIN mem |->
          IF a \in written
          THEN RequantizedValue(mem[AddressOf(in, CoordsAt(out, a))], inq, outq)
          ELSE mem[a]]

IsAddKernel(k) == k.kernel = "add_uint8_uint8"

\* A variant of the end of an iteration that advances by one element
\* whatever the extent of the input.
ConcatRequantized_advance_by_one(st, input, crops, r, axis_, outq) ==
    [st EXCEPT
       !.concatenated_i = @ + 1,
       !.translations = Append(@, st.concatenated_i),
       !.ranges = Append(@, [min |-> Dim(crops.a, axis_).min,
                             max |-> DimMax(crops.a, axis_)]),
       !.kernels = @ \o r.kernels,
       !.pc = IF r.pc = "done" THEN "running" ELSE r.pc]

\* A variant of the end of an iteration whose kernel reads the output crop
\* in place of the input.
ConcatRequantized_requantizes_output_crop(st, input, crops, r, axis_, outq) ==
    LET ran == IF r.kernels = <<>> THEN "none" ELSE r.kernels[1].kernel
    IN [st EXCEPT
          !.concatenated_i = @ + Dim(crops.input_buf, axis_).extent,
          !.translations = Append(@, st.concatenated_i),
          !.ranges = Append(@, [min |-> Dim(crops.a, axis_).min,
                                max |-> DimMax(crops.a, axis_)]),
          !.kernels = @ \o r.kernels,
          !.pc = IF r.pc = "done" THEN "running" ELSE r.pc,
          !.mem = IF r.pc # "done" \/ ran = "none" THEN st.mem
                  ELSE IF ran = "copy_from" THEN copy_from(st.mem, crops.b, crops.a)
                  ELSE add_uint8_uint8(st.mem, crops.a, input.quantization, crops.a, outq)]

\* The end of an iteration: r is what requantize did on the two crops.
ConcatRequantized(st, input, crops, r, axis_, outq) ==
    LET ran == IF r.kernels = <<>> THEN "none" ELSE r.kernels[1].kernel
    IN [st EXCEPT
          !.concatenated_i = @ + Dim(crops.input_buf, axis_).extent,
          !.translations = Append(@, st.concatenated_i),
          !.ranges = Append(@, [min |-> Dim(crops.a, axis_).min,
                                max |-> DimMax(crops.a, axis_)]),
          !.kernels = @ \o r.kernels,
          !.pc = IF r.pc = "done" THEN "running" ELSE r.pc,
          !.mem = IF r.pc # "done" \/ ran = "none" THEN st.mem
                  ELSE IF ran = "copy_from" THEN copy_from(st.mem, crops.b, crops.a)
                  ELSE add_uint8_uint8(st.mem, crops.b, input.quantization, crops.a, outq)]

\* One iteration of the loop of ConcatenationOp::execute: the input is
\* translated, output_crop (a) and the input (b) are cropped to each other,
\* and requantize runs on them; each result is computed once.
ConcatStep(st, input, axis_, outq, ndebug, fail_at) ==
    IF ~ndebug /\ Dim(input.buf, axis_).min # 0 THEN [st EXCEPT !.pc = "assert"]
    ELSE CHOOSE next \in
           {CHOOSE end \in
              {ConcatRequantized(st, input, crops, r, axis_, outq) :
                 r \in {requantize(ByteRange(crops.b), input.quantization,
                                   ByteRange(crops.a), outq,
                                   IF Len(SelectSeq(st.kernels, IsAddKernel)) + 1 = fail_at
                                   THEN 1 ELSE 0)}} : TRUE :
            crops \in
              {[a |-> c.a, b |-> c.b, input_buf |-> input_buf] :
                 c \in {crop_to_union(st.output_buf,
                                      translate(input.buf, axis_, st.concatenated_i))},
                 input_buf \in {translate(input.buf, axis_, st.concatenated_i)}}} : TRUE

\* for (int i = 0; i < input_count(); i++)
RECURSIVE ConcatLoop(_, _, _, _, _, _, _)
ConcatLoop(st, inputs, i, axis_, outq, ndebug, fail_at) ==
    IF i >= Len(inputs) \/ st.pc # "running" THEN st
    ELSE \* the state after this iteration is computed once, then the rest
         CHOOSE end \in {ConcatLoop(next, inputs, i + 1, axis_, outq, ndebug, fail_at) :
                            next \in {ConcatStep(st, inputs[i + 1], axis_, outq, ndebug,
                                                 fail_at)}} : TRUE

\* How ConcatenationOp::execute ends, what it ran, the storage it leaves,
\* and for each input the translation applied and the range of the output
\* axis handed to requantize.
ConcatenationOp_execute(inputs, output, axis_, mem, ndebug, fail_at) ==
    CHOOSE r \in
        {[pc |-> IF st.pc = "running" THEN "done" ELSE st.pc,
          kernels |-> st.kernels, mem |-> st.mem,
          translations |-> st.translations, ranges |-> st.ranges] :
            st \in {ConcatLoop([output_buf |-> output.buf, concatenated_i |-> 0,
                                translations |-> <<>>, ranges |-> <<>>,
                                kernels |-> <<>>, mem |-> mem, pc |-> "running"],
                               inputs, 0, axis_, output.quantization, ndebug, fail_at)}} : TRUE

ConcatExtents == {1, 2}
ConcatAxes == 0..(ConcatRank - 1)
\* The cells of the largest input, and of the largest output.
ConcatInputCells == 2 * Pow2(ConcatRank - 1)
ConcatOutputCells == MaxInputs * ConcatInputCells
ConcatMem == [a \in 0..(2 * ConcatOutputCells - 1) |-> 120 + a]
\* Two quantizations, so that inputs agree with the output or differ from it.
ConcatQuantizations == {q \in QuantizationInfos : q.zero = 0}
\* The extents of a tensor of the given extent along the axis.
ConcatShape(axis_, along, across) ==
    [i \in 1..ConcatRank |-> IF i = axis_ + 1 THEN along ELSE across]
RECURSIVE SumTo(_, _)
SumTo(alongs, i) == IF i = 0 THEN 0 ELSE SumTo(alongs, i - 1) + alongs[i]
ConcatSetup(axis_, alongs, across, inqs, outq, aliased, ndebug) ==
    LET out == Dense(0, ConcatShape(axis_, SumTo(alongs, Len(alongs)), across))
    IN [inputs |-> [i \in 1..Len(alongs) |->
                      [buf |-> IF aliased
                               THEN [host |-> SumTo(alongs, i - 1) * Dim(out, axis_).stride,
                                     dim |-> [j \in 1..ConcatRank |->
                                                [min |-> 0,
                                                 extent |-> ConcatShape(axis_, alongs[i], across)[j],
                                                 stride |-> out.dim[j].stride]]]
                               ELSE Dense(ConcatOutputCells + ConcatInputCells * (i - 1),
                                          ConcatShape(axis_, alongs[i], across)),
                       quantization |-> inqs[i]]],
        output |-> [buf |-> out, quantization |-> outq],
        axis |-> axis_, aliased |-> aliased, ndebug |-> ndebug, mem |-> ConcatMem]
ConcatSetups ==
    UNION {{ConcatSetup(axis_, alongs, across, inqs, outq, aliased, ndebug) :
               axis_ \in ConcatAxes, alongs \in [1..n -> ConcatExtents],
               across \in ConcatExtents, inqs \in [1..n -> ConcatQuantizations],
               outq \in ConcatQuantizations, aliased \in BOOLEAN, ndebug \in {FALSE}}
           : n \in 1..MaxInputs}

ConcatInit ==
    /\ pc = "ready"
    /\ call = NoCall
    /\ ret = NoRet
    /\ bufs \in ConcatSetups
    /\ kernels = <<>>

ExecuteConcatenationOp ==
    /\ pc = "ready"
    /\ \E fail_at \in 0..MaxInputs :
         \E r \in {ConcatenationOp_execute(bufs.inputs, bufs.output, bufs.axis, bufs.mem,
                                           bufs.ndebug, fail_at)} :
            /\ fail_at <= Len(SelectSeq(r.kernels, IsAddKernel))
            /\ call' = [fn |-> "ConcatenationOp::execute", mem |-> bufs.mem,
                        fail_at |-> fail_at]
            /\ ret' = [translations |-> r.translations, ranges |-> r.ranges]
            /\ kernels' = r.kernels
            /\ bufs' = [bufs EXCEPT !.mem = r.mem]
            /\ pc' = r.pc

\* map_bounds asked for one input of the operator.
CallConcatenationMapBounds ==
    /\ pc = "ready"
    /\ \E input_idx \in 0..(Len(bufs.inputs) - 1) :
         /\ call' = [fn |-> "ConcatenationOp::map_bounds", input_idx |-> input_idx]
         /\ ret' = [offset |-> ConcatenationOp_map_bounds(bufs.inputs, bufs.axis, input_idx)]
         /\ pc' = "done"
    /\ UNCHANGED <<bufs, kernels>>

ConcatNext ==
    \/ ExecuteConcatenationOp
    \/ CallConcatenationMapBounds

SpecConcat == ConcatInit /\ [][ConcatNext]_vars

IsConcatExecute == pc # "ready" /\ call # NoCall /\ call.fn = "ConcatenationOp::execute"
IsConcatMapBounds == pc # "ready" /\ call # NoCall /\ call.fn = "ConcatenationOp::map_bounds"
\* The extent of each input along the axis, in input order.
AxisExtents == [i \in 1..Len(bufs.inputs) |-> Dim(bufs.inputs[i].buf, bufs.axis).extent]
AxisMinsAreZero == \A i \in 1..Len(bufs.inputs) : Dim(bufs.inputs[i].buf, bufs.axis).min = 0
\* The range of the output axis input i is written to is the one that
\* starts where the ranges of the earlier inputs end.
ConsecutiveRange(i) ==
    /\ ret.ranges[i].min = SumTo(AxisExtents, i - 1)
    /\ ret.ranges[i].max = SumTo(AxisExtents, i) - 1
    /\ ret.ranges[i].min <= ret.ranges[i].max

\* C17: for inputs whose minimum along the axis is 0, the offset of
\* map_bounds for input i is the sum of the axis extents of the inputs
\* before it and is the translation execute applies to input i; the inputs
\* execute reaches are written to consecutive, disjoint ranges of the output
\* axis in input order, and a run that returns covers [0, sum of extents).
C17_ConcatOffsetsAreRunningSums ==
    /\ IsConcatMapBounds /\ AxisMinsAreZero
         => ret.offset = SumTo(AxisExtents, call.input_idx)
    /\ IsConcatExecute /\ AxisMinsAreZero
         => /\ Len(ret.translations) <= Len(bufs.inputs)
            /\ Len(ret.ranges) = Len(ret.translations)
            /\ pc = "done" => Len(ret.translations) = Len(bufs.inputs)
            /\ \A i \in 1..Len(ret.translations) :
                 /\ ret.translations[i] = SumTo(AxisExtents, i - 1)
                 /\ ret.translations[i]
                      = ConcatenationOp_map_bounds(bufs.inputs, bufs.axis, i - 1)
                 /\ ConsecutiveRange(i)
            /\ pc = "done"
                 => ret.ranges[Len(ret.ranges)].max + 1
                      = SumTo(AxisExtents, Len(bufs.inputs))

\* C17 witness: two inputs, the first of extent 2, written in place one
\* after the other by a run that returned.
C17_Witness ==
    /\ IsConcatExecute /\ pc = "done" /\ AxisMinsAreZero
    /\ Len(bufs.inputs) = MaxInputs
    /\ AxisExtents[1] = 2
    /\ ret.translations[MaxInputs] >= 2
    /\ Len(kernels) = MaxInputs

(***************************************************************************)
(* execute run twice in a row on the same operands, with no other write to *)
(* the storage in between.                                                 *)
(***************************************************************************)
IsPadSetup == "padding" \in DOMAIN bufs
IsConcatSetup == "axis" \in DOMAIN bufs

RepeatInit ==
    /\ pc = "ready"
    /\ call = NoCall
    /\ ret = NoRet
    /\ bufs \in PadSetups \cup ConcatSetups
    /\ kernels = <<>>

\* How a run ends: the first leaves the operator ready to run again and
\* keeps the storage it produced for the comparison.
AfterRun(r) ==
    /\ kernels' = kernels \o r.kernels
    /\ bufs' = [bufs EXCEPT !.mem = r.mem]
    /\ ret' = IF call = NoCall THEN [first |-> r.mem] ELSE ret
    /\ pc' = IF r.pc = "done" /\ call = NoCall THEN "ready" ELSE r.pc

ExecutePadOpAgain ==
    /\ pc = "ready"
    /\ IsPadSetup
    /\ \E r \in {PadOp_execute(bufs.in, bufs.out, bufs.padding, bufs.pad_value,
                               bufs.mem, 0)} :
         /\ call' = [fn |-> "PadOp::execute", runs |-> IF call = NoCall THEN 1 ELSE 2]
         /\ AfterRun(r)

ExecuteConcatenationOpAgain ==
    /\ pc = "ready"
    /\ IsConcatSetup
    /\ \E r \in {ConcatenationOp_execute(bufs.inputs, bufs.output, bufs.axis, bufs.mem,
                                         bufs.ndebug, 0)} :
         /\ call' = [fn |-> "ConcatenationOp::execute",
                     runs |-> IF call = NoCall THEN 1 ELSE 2]
         /\ AfterRun(r)

RepeatNext ==
    \/ ExecutePadOpAgain
    \/ ExecuteConcatenationOpAgain

SpecRepeat == RepeatInit /\ [][RepeatNext]_vars

RanTwice == pc = "done" /\ call # NoCall /\ call.runs = 2
OutputBuf == IF IsPadSetup THEN bufs.out.buf ELSE bufs.output.buf
\* The output holds after the second run what it held after the first.
SameOutput == \A a \in Addresses(OutputBuf) : bufs.mem[a] = ret.first[a]
\* An input sharing storage with the output is rewritten with another
\* quantization.
RequantizedInPlace ==
    /\ IsConcatSetup
    /\ \E i \in 1..Len(bufs.inputs) :
         /\ is_alias(ByteRange(bufs.inputs[i].buf), ByteRange(bufs.output.buf))
         /\ bufs.inputs[i].quantization # bufs.output.quantization

\* C14 (amended): running execute twice in a row leaves the output as one
\* run leaves it, for inputs in storage of their own, for an in-place pad
\* and for an in-place concatenation whose inputs have the quantization of
\* the output; not in general when an input that shares storage with the
\* output is requantized in place.
C14_IdempotentUnlessRequantizedInPlace ==
    RanTwice /\ ~RequantizedInPlace => SameOutput

\* C14 witness: a pad in place ran twice and changed the storage.
C14_Witness ==
    /\ RanTwice /\ IsPadSetup /\ bufs.aliased
    /\ bufs.mem # InitialMem
    /\ Len(kernels) >= 2
    /\ SameOutput

\* C14 as stated: idempotent for every operator, aliased or not.
C14_AsStated == RanTwice => SameOutput

(***************************************************************************)
(* FullyConnectedOp::execute: the leading dimensions of the input are      *)
(* fused until the view has rank 2.                                        *)
(***************************************************************************)
MaxFullyConnectedRank == 4

\* The loop with a step that fuses whether or not can_fuse_cx holds.
RECURSIVE FullyConnectedFuse_unchecked(_, _)
FullyConnectedFuse_unchecked(input_buf, steps) ==
    IF Dimensions(input_buf) <= 2
    THEN [pc |-> "running", input_buf |-> input_buf, steps |-> steps]
    ELSE CHOOSE end \in {FullyConnectedFuse_unchecked(fused, steps + 1) :
                           fused \in {fuse(input_buf, 0, 1)}} : TRUE

\* while (input_buf.dimensions() > 2) { CHECK(can_fuse_cx); fuse_cx; }
\* steps counts the fusions made.
RECURSIVE FullyConnectedFuse(_, _)
FullyConnectedFuse(input_buf, steps) ==
    IF Dimensions(input_buf) <= 2
    THEN [pc |-> "running", input_buf |-> input_buf, steps |-> steps]
    ELSE IF ~can_fuse(input_buf, 0, 1)
    THEN [pc |-> "fatal", input_buf |-> input_buf, steps |-> steps]
    ELSE CHOOSE end \in {FullyConnectedFuse(fused, steps + 1) :
                           fused \in {fuse(input_buf, 0, 1)}} : TRUE

\* How FullyConnectedOp::execute ends, what it ran, the fusions it made and
\* the view it was left with; status is what the kernel returns if reached.
FullyConnectedOp_execute(in, filt, out, activation_, status) ==
    IF in.type = "uint8" /\ filt.type = "uint8" /\ out.type = "uint8"
    THEN CHOOSE r \in
           {IF fused.pc = "fatal"
            THEN [pc |-> "fatal", kernels |-> <<>>, steps |-> fused.steps,
                  input_buf |-> fused.input_buf,
                  error |-> "Unfusable fully connected input"]
            ELSE LET params == get_quantized_multiply_params(in.quantization,
                                   filt.quantization, out.quantization)
                     output_range == get_output_range(activation_, out.quantization)
                     stopped == [kernels |-> <<>>, steps |-> fused.steps,
                                 input_buf |-> fused.input_buf, error |-> "none"]
                 IN IF ~params.asserted THEN [pc |-> "assert"] @@ stopped
                    ELSE IF ~output_range.checked THEN [pc |-> "fatal"] @@ stopped
                    ELSE IF ~output_range.asserted THEN [pc |-> "assert"] @@ stopped
                    ELSE [pc |-> Checked(status),
                          kernels |-> <<[kernel |-> "fully_connected_uint8",
                                         input_buf |-> fused.input_buf,
                                         status |-> status]>>,
                          steps |-> fused.steps, input_buf |-> fused.input_buf,
                          error |-> "none"]
              : fused \in {FullyConnectedFuse(in.buf, 0)}} : TRUE
    ELSE [pc |-> "fatal", kernels |-> <<>>, steps |-> 0, input_buf |-> in.buf,
          error |-> "Unsupported type"]

\* Input views of rank 2 and above: each dimension of extent 2 or 3, packed
\* on the one before, laid out with a gap, or a crop with a non-zero min.
FullyConnectedShapes ==
    {sh \in [min : Mins, extent : {2, 3}, kind : {"dense", "padded"}] :
        sh.min = 0 \/ sh.kind = "dense"}
FullyConnectedViews ==
    UNION {{[host |-> 0, dim |-> Layout(shape, 1)] : shape \in [1..r -> FullyConnectedShapes]}
           : r \in 2..MaxFullyConnectedRank}
FullyConnectedQuantization == [scale |-> [n |-> 1, k |-> 7], zero |-> 128]
\* The element types of input, filter and output: all supported, or one not.
FullyConnectedTypes ==
    {t \in [in : Types, filt : Types, out : Types] :
        Cardinality({x \in DOMAIN t : t[x] # "uint8"}) <= 1}

FullyConnectedInit ==
    /\ pc = "ready"
    /\ call = NoCall
    /\ ret = NoRet
    /\ \E v \in FullyConnectedViews, t \in FullyConnectedTypes :
         bufs = [in |-> [buf |-> v, type |-> t.in,
                         quantization |-> FullyConnectedQuantization],
                 filt |-> [type |-> t.filt, quantization |-> FullyConnectedQuantization],
                 out |-> [type |-> t.out, quantization |-> FullyConnectedQuantization]]
    /\ kernels = <<>>

ExecuteFullyConnectedOp ==
    /\ pc = "ready"
    /\ \E status \in Statuses :
         \E r \in {FullyConnectedOp_execute(bufs.in, bufs.filt, bufs.out, "None", status)} :
            /\ status <= Len(r.kernels)
            /\ call' = [fn |-> "FullyConnectedOp::execute", status |-> status]
            /\ ret' = [steps |-> r.steps, input_buf |-> r.input_buf, error |-> r.error]
            /\ kernels' = r.kernels
            /\ pc' = r.pc
    /\ UNCHANGED bufs

FullyConnectedNext == ExecuteFullyConnectedOp

SpecFullyConnected == FullyConnectedInit /\ [][FullyConnectedNext]_vars

IsFullyConnectedExecute ==
    pc # "ready" /\ call # NoCall /\ call.fn = "FullyConnectedOp::execute"
FullyConnectedAllUint8 ==
    bufs.in.type = "uint8" /\ bufs.filt.type = "uint8" /\ bufs.out.type = "uint8"
\* The view after n fusions of dimensions 0 and 1.
RECURSIVE FusedTimes(_, _)
FusedTimes(buf, n) == IF n = 0 THEN buf ELSE fuse(FusedTimes(buf, n - 1), 0, 1)
\* The product of the extents of dimensions 0..d.
RECURSIVE ExtentProduct(_, _)
ExtentProduct(buf, d) ==
    IF d < 0 THEN 1 ELSE ExtentProduct(buf, d - 1) * Dim(buf, d).extent
OriginalRank == Dimensions(bufs.in.buf)
\* The loop stopped at the first step whose view cannot be fused.
EndedUnfusable ==
    /\ pc = "fatal" /\ ret.error = "Unfusable fully connected input"
    /\ kernels = <<>>
    /\ ret.steps < OriginalRank - 2
    /\ \A j \in 0..(ret.steps - 1) : can_fuse(FusedTimes(bufs.in.buf, j), 0, 1)
    /\ ~can_fuse(FusedTimes(bufs.in.buf, ret.steps), 0, 1)
\* The loop ran to a rank-2 view.
EndedRankTwo ==
    /\ ret.error = "none"
    /\ ret.steps = OriginalRank - 2
    /\ \A j \in 0..(ret.steps - 1) : can_fuse(FusedTimes(bufs.in.buf, j), 0, 1)
    /\ Dimensions(ret.input_buf) = 2
    /\ Dim(ret.input_buf, 0).extent = ExtentProduct(bufs.in.buf, OriginalRank - 2)
    /\ Dim(ret.input_buf, 1) = Dim(bufs.in.buf, OriginalRank - 1)

\* C18: on supported types and an input view of rank r >= 2 the fusion
\* loop of FullyConnectedOp::execute makes at most r - 2 steps and ends in
\* exactly one of two ways: fatal with "Unfusable fully connected input" at
\* the first step where dimensions 0 and 1 cannot be fused, or with a rank-2
\* view whose dimension 0 has the product of the extents of the original
\* dimensions 0..r-2 and whose last dimension is the original last one; the
\* kernel is never given an input of rank above 2.
C18_FullyConnectedFusesToRankTwo ==
    IsFullyConnectedExecute /\ FullyConnectedAllUint8 /\ OriginalRank >= 2
      => /\ ret.steps <= OriginalRank - 2
         /\ EndedUnfusable \/ EndedRankTwo
         /\ ~(EndedUnfusable /\ EndedRankTwo)
         /\ \A i \in 1..Len(kernels) : Dimensions(kernels[i].input_buf) <= 2

\* C18 witness: a rank-4 input fused twice and handed to the kernel, its
\* leading extents not all alike.
C18_Witness ==
    /\ IsFullyConnectedExecute /\ FullyConnectedAllUint8 /\ pc = "done"
    /\ OriginalRank = MaxFullyConnectedRank
    /\ ret.steps = OriginalRank - 2
    /\ Len(kernels) = 1
    /\ Dim(bufs.in.buf, 0).extent # Dim(bufs.in.buf, 1).extent
    /\ Dim(ret.input_buf, 0).extent > Dim(bufs.in.buf, 0).extent

(***************************************************************************)
(* optimize_elementwise_shapes, in its form for two operands (a, b) and    *)
(* its form for three (a, b, c): the operands are the tuple ops, and the   *)
(* extents are compared with those of the last operand, as the code does.  *)
(***************************************************************************)
MaxElementwiseRank == 3

\* The loop without the comparison of the extents.
RECURSIVE ElementwiseLoop_any_extent(_, _)
ElementwiseLoop_any_extent(ops, steps) ==
    IF \A i \in 1..Len(ops) : can_fuse(ops[i], 0, 1)
    THEN CHOOSE end \in
           {ElementwiseLoop_any_extent(fused, Append(steps, [before |-> ops, after |-> fused])) :
              fused \in {[i \in 1..Len(ops) |-> fuse(ops[i], 0, 1)]}} : TRUE
    ELSE [ops |-> ops, steps |-> steps]

\* while (can_fuse_cx(a) && can_fuse_cx(b) [&& can_fuse_cx(c)] &&
\*        a.dim(0).extent() == c.dim(0).extent() && ...) { fuse_cx(a); ... }
\* steps records the operands before and after each fusion step.
RECURSIVE ElementwiseLoop(_, _)
ElementwiseLoop(ops, steps) ==
    IF /\ \A i \in 1..Len(ops) : can_fuse(ops[i], 0, 1)
       /\ \A i \in 1..(Len(ops) - 1) :
            Dim(ops[i], 0).extent = Dim(ops[Len(ops)], 0).extent
    THEN CHOOSE end \in
           {ElementwiseLoop(fused, Append(steps, [before |-> ops, after |-> fused])) :
              fused \in {[i \in 1..Len(ops) |-> fuse(ops[i], 0, 1)]}} : TRUE
    ELSE [ops |-> ops, steps |-> steps]

optimize_elementwise_shapes(ops, rank) ==
    CHOOSE r \in {[ops |-> [i \in 1..Len(ops) |-> pad_to_rank(end.ops[i], rank)],
                   steps |-> end.steps] : end \in {ElementwiseLoop(ops, <<>>)}} : TRUE

\* Operands: views of rank 1 and above with min 0 and extents 2 or 3, each
\* dimension packed on the one before; the first operand may also have a
\* gap before its last dimension.
ElementwiseExtents == {2, 3}
PackedViews ==
    UNION {{[host |-> 0, dim |-> Layout(DenseShape(extents), 1)]
              : extents \in [1..r -> ElementwiseExtents]} : r \in 1..MaxElementwiseRank}
GappedViews ==
    {[host |-> 0,
      dim |-> Layout([i \in 1..Dimensions(v) |->
                        [min |-> 0, extent |-> v.dim[i].extent,
                         kind |-> IF i = Dimensions(v) THEN "padded" ELSE "dense"]], 1)]
       : v \in PackedViews}
\* The rank UnaryOp::execute asks for.
UnaryRank == 1

ElementwiseInit ==
    /\ pc = "ready"
    /\ call = NoCall
    /\ ret = NoRet
    /\ bufs \in [a : PackedViews \cup GappedViews, b : PackedViews, c : PackedViews]
    /\ kernels = <<>>

\* The form for two operands, as UnaryOp::execute calls it.
CallOptimizeElementwiseShapes2 ==
    /\ pc = "ready"
    /\ \E r \in {optimize_elementwise_shapes(<<bufs.a, bufs.b>>, UnaryRank)} :
         /\ call' = [fn |-> "optimize_elementwise_shapes", operands |-> 2,
                     rank |-> UnaryRank]
         /\ ret' = [steps |-> r.steps]
         /\ bufs' = [bufs EXCEPT !.a = r.ops[1], !.b = r.ops[2]]
    /\ pc' = "done"
    /\ UNCHANGED kernels

\* The form for three operands, as BinaryOp::execute calls it.
CallOptimizeElementwiseShapes3 ==
    /\ pc = "ready"
    /\ \E r \in {optimize_elementwise_shapes(<<bufs.a, bufs.b, bufs.c>>, BinaryRank)} :
         /\ call' = [fn |-> "optimize_elementwise_shapes", operands |-> 3,
                     rank |-> BinaryRank]
         /\ ret' = [steps |-> r.steps]
         /\ bufs' = [a |-> r.ops[1], b |-> r.ops[2], c |-> r.ops[3]]
    /\ pc' = "done"
    /\ UNCHANGED kernels

ElementwiseNext ==
    \/ CallOptimizeElementwiseShapes2
    \/ CallOptimizeElementwiseShapes3

SpecElementwise == ElementwiseInit /\ [][ElementwiseNext]_vars

IsOptimizeElementwise ==
    pc = "done" /\ call # NoCall /\ call.fn = "optimize_elementwise_shapes"
\* All the operands have the same extent in dimension d.
SameExtent(ops, d) ==
    \A i \in 1..Len(ops), j \in 1..Len(ops) : Dim(ops[i], d).extent = Dim(ops[j], d).extent

\* C19 (amended): in both forms, every fusion step is made on operands that
\* can all be fused and that agree on the extent of dimension 0 before the
\* step; after the step their dimension-0 extents agree exactly when their
\* dimension-1 extents agreed before it.
C19_FusedWhileDimensionZeroAgrees ==
    IsOptimizeElementwise
      => \A i \in 1..Len(ret.steps) :
           /\ Len(ret.steps[i].before) = call.operands
           /\ \A k \in 1..call.operands : can_fuse(ret.steps[i].before[k], 0, 1)
           /\ SameExtent(ret.steps[i].before, 0)
           /\ SameExtent(ret.steps[i].after, 0) <=> SameExtent(ret.steps[i].before, 1)

\* C19 witness: three operands fused in two steps, agreeing after each.
C19_Witness ==
    /\ IsOptimizeElementwise /\ call.operands = 3
    /\ Len(ret.steps) = 2
    /\ SameExtent(ret.steps[1].after, 0)
    /\ SameExtent(ret.steps[2].after, 0)
    /\ Dim(ret.steps[2].after[1], 0).extent > Dim(ret.steps[1].after[1], 0).extent

\* C19 as stated: after every fusion step the operands have the same
\* dimension-0 extent.
C19_AsStated ==
    IsOptimizeElementwise
      => \A i \in 1..Len(ret.steps) : SameExtent(ret.steps[i].after, 0)

(***************************************************************************)
(* The range of the multiplier get_quantized_mul_and_shift returns.        *)
(***************************************************************************)
IsPositiveMulAndShiftCall == IsMulAndShiftCall /\ ~IsZero(call.m) /\ ~call.m.neg
\* The fraction of m is at least 1 - 2^-bits, so that it rounds up to 1.
RoundsUpToOne(m, bits) == \A i \in 1..bits : m.mant[i] = 1
\* The binary exponent of m once its fraction is rounded to bits - 1 bits.
RoundedExponent(m, bits) == IF RoundsUpToOne(m, bits) THEN m.exp + 1 ELSE m.exp
ReturnsZeroZero == ret.multiplier = 0 /\ ret.shift = 0
\* 2^(bits-2) <= multiplier < 2^(bits-1), written without 2^31.
MultiplierInRange ==
    Pow2(call.bits - 2) <= ret.multiplier
    /\ ret.multiplier - Pow2(call.bits - 2) < Pow2(call.bits - 2)
\* multiplier = 2^(bits-1)
MultiplierIsOneShl == ret.multiplier - Pow2(call.bits - 2) = Pow2(call.bits - 2)

\* C20 (amended): for every positive m and both precisions the result is
\* (0, 0) exactly when the binary exponent of m, taken after its fraction
\* is rounded to bits - 1 bits, is below -(bits - 1); every other result
\* has 2^(bits-2) <= multiplier < 2^(bits-1), never 2^(bits-1).
C20_MultiplierNormalisedUnlessRoundedUnderflow ==
    IsPositiveMulAndShiftCall
      => /\ ReturnsZeroZero <=> RoundedExponent(call.m, call.bits) < -(call.bits - 1)
         /\ ReturnsZeroZero \/ MultiplierInRange
         /\ ~MultiplierIsOneShl

\* C20 witness: an m just below 2^-bits, whose exponent is below
\* -(bits - 1), rounds up and is returned as 2^(bits-2) with shift
\* -(bits - 1).
C20_Witness ==
    /\ IsPositiveMulAndShiftCall /\ pc = "done"
    /\ call.m.exp = -call.bits
    /\ RoundsUpToOne(call.m, call.bits)
    /\ ret.multiplier = Pow2(call.bits - 2)
    /\ ret.shift = -(call.bits - 1)

\* C20 as stated: (0, 0) exactly when the binary exponent of m is below
\* -(bits - 1).
C20_AsStated ==
    IsPositiveMulAndShiftCall
      => /\ ReturnsZeroZero <=> call.m.exp < -(call.bits - 1)
         /\ ReturnsZeroZero \/ MultiplierInRange
         /\ ~MultiplierIsOneShl

(***************************************************************************)
(* The catalog of operators.  The execute of each kind that is not        *)
(* modelled above, down to the types it tests, the assertions it makes    *)
(* and the kernel it calls; fail_at = 1 makes that kernel return non-zero. *)
(* ndebug tells a build without assertions.                                *)
(***************************************************************************)
\* CHECK(false)
Fatal == [pc |-> "fatal", kernels |-> <<>>]
Asserted == [pc |-> "assert", kernels |-> <<>>]
\* A return without any call.
Returned == [pc |-> "done", kernels |-> <<>>]
\* CHECK(0 == kernel(...)) as the only kernel call of an execute, on the
\* given buffers.
CheckedKernel(kernel, buffers, fail_at) ==
    [pc |-> Checked(IF fail_at = 1 THEN 1 ELSE 0),
     kernels |-> <<[kernel |-> kernel, buffers |-> buffers,
                    status |-> IF fail_at = 1 THEN 1 ELSE 0]>>]

\* The float std::log2(std::exp(1.0f)), 0x3FB8AA3B, as a double.
Log2eBits == <<1, 0, 1, 1, 1, 0, 0, 0, 1, 0, 1, 0, 1, 0, 1, 0, 0, 0, 1, 1, 1, 0, 1, 1>>
Log2e == [neg |-> FALSE,
          mant |-> [i \in 1..MantBits |-> IF i <= Len(Log2eBits) THEN Log2eBits[i] ELSE 0],
          exp |-> 1]
Negated(d) == [d EXCEPT !.neg = ~d.neg]
\* const int left_shift = 6 of SoftmaxOp::execute and UnaryOp::execute
ExpLeftShift == 6

\* mul() up to its kernel call: whether every assertion on the way holds,
\* and whether the CHECK of the activation does.
mul(in1q, in2q, outq, activation) ==
    LET in1_scale == ScaleToDouble(in1q.scale)
        in2_scale == ScaleToDouble(in2q.scale)
        out_scale == ScaleToDouble(outq.scale)
        multiplier == DoubleDivPow2(DoubleMulPow2(in1_scale, in2_scale), out_scale)
        mul_and_shift == get_quantized_mul_and_shift_smaller_than_one(multiplier, DefaultBits)
        out_range == get_output_range(activation, outq)
    IN [multiplier |-> mul_and_shift.multiplier, shift |-> -mul_and_shift.shift,
        checked |-> out_range.checked,
        asserted |-> /\ mul_and_shift.pre /\ mul_and_shift.post
                     /\ mul_and_shift.shift <= 0 /\ out_range.asserted]

\* The CHECK of the activation inside get_output_range is tested before the
\* assertions of add and mul; the activations used here pass it.
BinaryOp_execute(in1, in2, out, op_, activation_, ndebug, fail_at) ==
    IF in1.type = "uint8" /\ in2.type = "uint8" /\ out.type = "uint8"
    THEN CHOOSE r \in
           {IF b.fatal THEN Fatal
            ELSE IF ~get_output_range(activation_, out.quantization).checked THEN Fatal
            ELSE IF op_ \in {"Add", "Sub"}
            THEN IF ~ndebug /\ ~add(in1.quantization, in2.quantization,
                                    IF op_ = "Add" THEN 1 ELSE -1,
                                    out.quantization, activation_).asserted
                 THEN Asserted
                 ELSE CheckedKernel("add_uint8_uint8", o.ops, fail_at)
            ELSE IF op_ = "Mul"
            THEN IF ~ndebug /\ ~mul(in1.quantization, in2.quantization,
                                    out.quantization, activation_).asserted
                 THEN Asserted
                 ELSE CheckedKernel("mul_uint8_uint8_uint8", o.ops, fail_at)
            ELSE Returned
              : b \in {broadcast_shapes(in1.buf, in2.buf, BinaryRank)},
                o \in {optimize_elementwise_shapes(
                          <<broadcast_shapes(in1.buf, in2.buf, BinaryRank).a,
                            broadcast_shapes(in1.buf, in2.buf, BinaryRank).b, out.buf>>,
                          BinaryRank)}} : TRUE
    ELSE Fatal

\* The loop of Conv2DOp::execute for 1x1 filters, and the padding after it.
RECURSIVE Conv2DFuse(_, _)
Conv2DFuse(input_buf, output_buf) ==
    IF /\ can_fuse(input_buf, 1, 2) /\ can_fuse(output_buf, 1, 2)
       /\ Dim(input_buf, 1).extent = Dim(output_buf, 1).extent
    THEN CHOOSE end \in {Conv2DFuse(fused.a, fused.b) :
                           fused \in {[a |-> fuse(input_buf, 1, 2),
                                       b |-> fuse(output_buf, 1, 2)]}} : TRUE
    ELSE [input_buf |-> pad_to_rank(input_buf, BinaryRank),
          output_buf |-> pad_to_rank(output_buf, BinaryRank)]

\* The least input channel count the large-reduction kernel is used for.
ConvR16Channels == 16
\* The kernel the wrapper conv_uint8 calls; conv_r16 tells a build with
\* CONV_R16 defined.
conv_uint8(input, conv_r16) ==
    IF conv_r16 /\ Dim(input, 0).extent >= ConvR16Channels
    THEN "conv_r16_uint8" ELSE "conv_uint8"

\* The rank Conv2DOp::execute asserts of its filter.
FilterRank == 6

Conv2DOp_execute(in, filt, out, activation_, conv_r16, ndebug, fail_at) ==
    IF in.type = "uint8" /\ out.type = "uint8"
    THEN LET params == get_quantized_multiply_params(in.quantization, filt.quantization,
                                                     out.quantization)
             output_range == get_output_range(activation_, out.quantization)
             one_by_one == Dim(filt.buf, 4).extent = 1 /\ Dim(filt.buf, 5).extent = 1
             bufs_ == IF one_by_one THEN Conv2DFuse(in.buf, out.buf)
                      ELSE [input_buf |-> in.buf, output_buf |-> out.buf]
         IN IF ~ndebug /\ ~params.asserted THEN Asserted
            ELSE IF ~output_range.checked THEN Fatal
            ELSE IF ~ndebug /\ ~output_range.asserted THEN Asserted
            ELSE IF ~ndebug /\ Dimensions(filt.buf) # FilterRank THEN Asserted
            ELSE CheckedKernel(conv_uint8(bufs_.input_buf, conv_r16),
                               <<bufs_.input_buf, filt.buf, bufs_.output_buf>>, fail_at)
    ELSE Fatal

\* The output quantization L2NormalizationOp::execute and Tanh assert:
\* scale 1/128, zero 128; and the one Logistic asserts: scale 1/256, zero 0.
SignedUnitQuantization == [scale |-> [n |-> 1, k |-> 7], zero |-> 128]
UnitQuantization == [scale |-> [n |-> 1, k |-> 8], zero |-> 0]

L2NormalizationOp_execute(in, out, ndebug, fail_at) ==
    IF in.type = "uint8" /\ out.type = "uint8"
    THEN IF ~ndebug /\ ~(in.quantization.zero >= 0 /\ in.quantization.zero <= 255)
         THEN Asserted
         ELSE IF ~ndebug /\ out.quantization # SignedUnitQuantization THEN Asserted
         ELSE CheckedKernel("l2_normalization_uint8", <<in.buf, out.buf>>, fail_at)
    ELSE Fatal

\* compute_padding with the half rounded up.
compute_padding_rounded_up(stride, in_size, filter_size, out_size) ==
    LET effective_filter_size == (filter_size - 1) + 1
        total_padding == Max(0, (out_size - 1) * stride + effective_filter_size - in_size)
    IN (total_padding + 1) \div 2

compute_padding(stride, in_size, filter_size, out_size) ==
    LET effective_filter_size == (filter_size - 1) + 1
        total_padding == Max(0, (out_size - 1) * stride + effective_filter_size - in_size)
    IN total_padding \div 2

PoolOp_execute(in, out, op_, stride_, filter_size_, activation_, ndebug, fail_at) ==
    IF in.type = "uint8" /\ out.type = "uint8"
    THEN LET output_range == get_output_range(activation_, out.quantization)
             input_buf ==
                 translate(translate(in.buf, 1,
                                     compute_padding(stride_[1], Dim(in.buf, 1).extent,
                                                     filter_size_[1], Dim(out.buf, 1).extent)),
                           2, compute_padding(stride_[2], Dim(in.buf, 2).extent,
                                              filter_size_[2], Dim(out.buf, 2).extent))
         IN IF ~output_range.checked THEN Fatal
            ELSE IF ~ndebug /\ ~output_range.asserted THEN Asserted
            ELSE IF op_ = "Average" THEN CheckedKernel("average_pool_uint8", <<input_buf, out.buf>>, fail_at)
            ELSE IF op_ = "Max" THEN CheckedKernel("max_pool_uint8", <<input_buf, out.buf>>, fail_at)
            ELSE Returned
    ELSE Fatal

\* There is no else: with another type the function returns.
ReductionOp_execute(in, out, op_, fail_at) ==
    IF in.type = "uint8" /\ out.type = "uint8"
    THEN IF op_ = "Mean" THEN CheckedKernel("mean_uint8", <<in.buf, out.buf>>, fail_at) ELSE Returned
    ELSE Returned

SoftmaxOp_execute(in, out, ndebug, fail_at) ==
    IF in.type = "uint8" /\ out.type = "uint8"
    THEN LET \* beta_ = 1
             beta2 == Log2e
             output_zero == out.quantization.zero
             real_in_multiplier ==
                 DoubleDivPow2(DoubleMulPow2(beta2, ScaleToDouble(in.quantization.scale)),
                               DoublePow2(ExpLeftShift))
             in_mul_and_shift ==
                 get_quantized_mul_and_shift_smaller_than_one(real_in_multiplier, 16)
             output_mul_and_shift ==
                 get_quantized_mul_and_shift_smaller_than_one(
                     ScaleToDouble(out.quantization.scale), DefaultBits)
         IN IF ~ndebug /\ ~(/\ output_zero >= 0 /\ output_zero <= 255
                            /\ in_mul_and_shift.pre /\ in_mul_and_shift.post
                            /\ output_mul_and_shift.pre /\ output_mul_and_shift.post)
            THEN Asserted
            ELSE CheckedKernel("softmax_uint8", <<in.buf, out.buf>>, fail_at)
    ELSE Fatal

\* Only the type of the input is tested.
TileConvFilterOp_execute(in, out, fail_at) ==
    IF in.type = "uint8" THEN CheckedKernel("tile_conv_filter_uint8", <<in.buf, out.buf>>, fail_at)
    ELSE Fatal

\* const double real_in_multiplier of UnaryOp::execute, for Logistic and for
\* Tanh.
UnaryOp_real_in_multiplier(in_scale, op_) ==
    LET scaled == DoubleDivPow2(DoubleMulPow2(Log2e, ScaleToDouble(in_scale)),
                                DoublePow2(ExpLeftShift))
    IN IF op_ = "Logistic" THEN Negated(scaled)
       ELSE DoubleMulPow2(scaled, DoublePow2(1))

\* There is no else for the types: with another type the function returns.
UnaryOp_execute(in, out, op_, ndebug, fail_at) ==
    IF in.type = "uint8" /\ out.type = "uint8"
    THEN LET input_zero == in.quantization.zero
             real_in_multiplier == UnaryOp_real_in_multiplier(in.quantization.scale, op_)
             in_mul_and_shift ==
                 get_quantized_mul_and_shift_smaller_than_one(real_in_multiplier, 16)
             expected == IF op_ = "Logistic" THEN UnitQuantization
                         ELSE SignedUnitQuantization
         IN IF ~ndebug /\ ~(input_zero >= 0 /\ input_zero <= 255) THEN Asserted
            ELSE IF op_ \notin {"Logistic", "Tanh"} THEN Fatal
            ELSE IF ~ndebug /\ ~(in_mul_and_shift.pre /\ in_mul_and_shift.post) THEN Asserted
            ELSE IF ~ndebug /\ out.quantization # expected THEN Asserted
            ELSE CheckedKernel(IF op_ = "Logistic" THEN "logistic_uint8" ELSE "tanh_uint8",
                               optimize_elementwise_shapes(<<in.buf, out.buf>>, UnaryRank).ops,
                               fail_at)
    ELSE Returned

(***************************************************************************)
(* Operators of each kind of the catalog, each executed once or visited   *)
(* once.                                                                   *)
(***************************************************************************)
OpKinds == {"Binary", "Concatenation", "Conv2D", "DepthwiseConv2D", "FullyConnected",
            "L2Normalization", "Pad", "Pool", "Softmax", "Reduction", "Reshape",
            "TileConvFilter", "Unary"}

\* The overloads of visit an OpVisitor declares: one for each kind.
VisitOverloads == OpKinds

\* An accept that hands itself over as an operator of no particular kind.
accept_as_base(kind) ==
    <<[callback |-> "visit", overload |-> "Op", argument |-> "this"]>>

\* The calls Kind::accept(v) makes on v: v->visit(this), where this is a
\* pointer to an operator of the class accept is a member of.
accept(kind) ==
    <<[callback |-> "visit",
       overload |-> IF kind \in VisitOverloads THEN kind ELSE "Op",
       argument |-> "this"]>>

TensorOf(type, buf, quantization) ==
    [type |-> type, buf |-> buf, quantization |-> quantization]
OutputQuantizations == {SignedUnitQuantization, UnitQuantization}
\* The element types of a first tensor, a second one and the output.
TypesOfTwo == [in : Types, other : {"uint8"}, out : Types]
TypesOfThree == [in : Types, other : Types, out : Types]
\* Views of batch 1 with 2 x 2 positions of the given number of channels.
Image(channels) == Dense(0, <<channels, 2, 2, 1>>)
\* Filters of the given width and height.
Filter(size) == Dense(0, <<1, 1, 1, 1, size, size>>)

BinarySetups ==
    [op : {"Binary"}, types : TypesOfThree, op_ : {"Add", "Sub", "Mul"},
     ndebug : BOOLEAN]
ConcatenationSetups ==
    {[op |-> "Concatenation"] @@ ConcatSetup(0, [i \in 1..MaxInputs |-> 1], 1, inqs, outq,
                                             FALSE, ndebug) :
        inqs \in [1..MaxInputs -> ConcatQuantizations], outq \in ConcatQuantizations,
        ndebug \in BOOLEAN}
Conv2DSetups ==
    [op : {"Conv2D"}, types : TypesOfThree, channels : {2, ConvR16Channels},
     filter_size : {1, 3}, conv_r16 : BOOLEAN, ndebug : {FALSE}]
DepthwiseConv2DSetups ==
    [op : {"DepthwiseConv2D"}, types : TypesOfThree, depth_multiplier : DepthMultipliers,
     ndebug : {FALSE}]
FullyConnectedSetups ==
    [op : {"FullyConnected"}, types : TypesOfThree,
     kind : {"dense", "padded"}, ndebug : {FALSE}]
L2NormalizationSetups ==
    [op : {"L2Normalization"}, types : TypesOfTwo, outq : OutputQuantizations,
     ndebug : BOOLEAN]
PadCatalogSetups ==
    {[op |-> "Pad", ndebug |-> FALSE] @@ su :
        su \in {x \in PadSetups : \A i \in 1..PadRank : x.padding[i] = MaxPadding}}
PoolSetups ==
    [op : {"Pool"}, types : TypesOfTwo, op_ : {"Average", "Max"}, ndebug : BOOLEAN]
SoftmaxSetups ==
    [op : {"Softmax"}, types : TypesOfTwo, outq : OutputQuantizations, ndebug : BOOLEAN]
ReductionSetups ==
    [op : {"Reduction"}, types : TypesOfTwo, op_ : {"Mean"}, ndebug : BOOLEAN]
ReshapeSetups ==
    [op : {"Reshape"}, in : {Dense(0, <<4>>)}, out : {Dense(0, <<2, 2>>), Dense(4, <<2, 2>>)},
     bytes : ElementSizes, ndebug : BOOLEAN]
TileConvFilterSetups ==
    [op : {"TileConvFilter"}, types : TypesOfTwo, ndebug : BOOLEAN]
UnarySetups ==
    [op : {"Unary"}, types : TypesOfTwo, op_ : {"Logistic", "Tanh"},
     outq : OutputQuantizations, ndebug : BOOLEAN]

CatalogInit ==
    /\ pc = "ready"
    /\ call = NoCall
    /\ ret = NoRet
    /\ bufs \in BinarySetups \cup ConcatenationSetups \cup Conv2DSetups
                \cup DepthwiseConv2DSetups \cup FullyConnectedSetups
                \cup L2NormalizationSetups \cup PadCatalogSetups \cup PoolSetups
                \cup SoftmaxSetups \cup ReductionSetups \cup ReshapeSetups
                \cup TileConvFilterSetups \cup UnarySetups
    /\ kernels = <<>>

\* A kernel that returns a status.
ReturnsStatus(k) == "status" \in DOMAIN k /\ k.kernel # "copy_from"
\* How an execute ends: r is what it did; the call numbered fail_at, if
\* there is one, is the kernel that failed.
Executed(r, fail_at) ==
    /\ fail_at <= Len(SelectSeq(r.kernels, ReturnsStatus))
    /\ call' = [fn |-> "execute", op |-> bufs.op, fail_at |-> fail_at]
    /\ ret' = NoRet
    /\ kernels' = r.kernels
    /\ pc' = r.pc
    /\ bufs' = IF "mem" \in DOMAIN r THEN [bufs EXCEPT !.mem = r.mem] ELSE bufs

ExecuteBinaryOp ==
    /\ pc = "ready" /\ bufs.op = "Binary"
    /\ \E fail_at \in Statuses :
         \E r \in {BinaryOp_execute(
                     TensorOf(bufs.types.in, Dense(0, <<2>>), SignedUnitQuantization),
                     TensorOf(bufs.types.other, Dense(0, <<1>>), SignedUnitQuantization),
                     TensorOf(bufs.types.out, Dense(0, <<2>>), SignedUnitQuantization),
                     bufs.op_, "None", bufs.ndebug, fail_at)} : Executed(r, fail_at)

ExecuteConcatenationOpOfCatalog ==
    /\ pc = "ready" /\ bufs.op = "Concatenation"
    /\ \E fail_at \in 0..MaxInputs :
         \E r \in {ConcatenationOp_execute(bufs.inputs, bufs.output, bufs.axis, bufs.mem,
                                           bufs.ndebug, fail_at)} : Executed(r, fail_at)

ExecuteConv2DOp ==
    /\ pc = "ready" /\ bufs.op = "Conv2D"
    /\ \E fail_at \in Statuses :
         \E r \in {Conv2DOp_execute(
                     TensorOf(bufs.types.in, Image(bufs.channels), SignedUnitQuantization),
                     TensorOf(bufs.types.other, Filter(bufs.filter_size),
                              SignedUnitQuantization),
                     TensorOf(bufs.types.out, Image(2), SignedUnitQuantization),
                     "None", bufs.conv_r16, bufs.ndebug, fail_at)} : Executed(r, fail_at)

ExecuteDepthwiseConv2DOpOfCatalog ==
    /\ pc = "ready" /\ bufs.op = "DepthwiseConv2D"
    /\ \E fail_at \in Statuses :
         \E r \in {DepthwiseConv2DOp_execute(
                     [type |-> bufs.types.in, extent |-> 1,
                      quantization |-> SignedUnitQuantization],
                     [type |-> bufs.types.other, quantization |-> SignedUnitQuantization],
                     [type |-> bufs.types.out, extent |-> bufs.depth_multiplier,
                      quantization |-> SignedUnitQuantization],
                     bufs.depth_multiplier, "None", fail_at)} : Executed(r, fail_at)

ExecuteFullyConnectedOpOfCatalog ==
    /\ pc = "ready" /\ bufs.op = "FullyConnected"
    /\ \E fail_at \in Statuses :
         \E r \in {FullyConnectedOp_execute(
                     [buf |-> [host |-> 0,
                               dim |-> Layout(<<[min |-> 0, extent |-> 2, kind |-> "dense"],
                                                [min |-> 0, extent |-> 2, kind |-> bufs.kind],
                                                [min |-> 0, extent |-> 2, kind |-> "dense"]>>,
                                              1)],
                      type |-> bufs.types.in, quantization |-> SignedUnitQuantization],
                     [type |-> bufs.types.other, quantization |-> SignedUnitQuantization],
                     [type |-> bufs.types.out, quantization |-> SignedUnitQuantization],
                     "None", fail_at)} : Executed(r, fail_at)

ExecuteL2NormalizationOp ==
    /\ pc = "ready" /\ bufs.op = "L2Normalization"
    /\ \E fail_at \in Statuses :
         \E r \in {L2NormalizationOp_execute(
                     TensorOf(bufs.types.in, Dense(0, <<2, 1>>), SignedUnitQuantization),
                     TensorOf(bufs.types.out, Dense(0, <<2, 1>>), bufs.outq),
                     bufs.ndebug, fail_at)} : Executed(r, fail_at)

ExecutePadOpOfCatalog ==
    /\ pc = "ready" /\ bufs.op = "Pad"
    /\ \E fail_at \in 0..MaxPadKernels :
         \E r \in {PadOp_execute(bufs.in, bufs.out, bufs.padding, bufs.pad_value,
                                 bufs.mem, fail_at)} : Executed(r, fail_at)

ExecutePoolOp ==
    /\ pc = "ready" /\ bufs.op = "Pool"
    /\ \E fail_at \in Statuses :
         \E r \in {PoolOp_execute(
                     TensorOf(bufs.types.in, Image(2), SignedUnitQuantization),
                     TensorOf(bufs.types.out, Image(2), SignedUnitQuantization),
                     bufs.op_, <<1, 1>>, <<2, 2>>, "None", bufs.ndebug, fail_at)} :
            Executed(r, fail_at)

ExecuteSoftmaxOp ==
    /\ pc = "ready" /\ bufs.op = "Softmax"
    /\ \E fail_at \in Statuses :
         \E r \in {SoftmaxOp_execute(
                     TensorOf(bufs.types.in, Dense(0, <<2, 1>>), SignedUnitQuantization),
                     TensorOf(bufs.types.out, Dense(0, <<2, 1>>), bufs.outq),
                     bufs.ndebug, fail_at)} : Executed(r, fail_at)

ExecuteReductionOp ==
    /\ pc = "ready" /\ bufs.op = "Reduction"
    /\ \E fail_at \in Statuses :
         \E r \in {ReductionOp_execute(
                     TensorOf(bufs.types.in, Image(2), SignedUnitQuantization),
                     TensorOf(bufs.types.out, Dense(0, <<2, 1, 1, 1>>),
                              SignedUnitQuantization),
                     bufs.op_, fail_at)} : Executed(r, fail_at)

ExecuteReshapeOpOfCatalog ==
    /\ pc = "ready" /\ bufs.op = "Reshape"
    /\ \E r \in {ReshapeOp_execute(bufs.in, bufs.out, bufs.bytes, bufs.ndebug)} :
         Executed(r, 0)

ExecuteTileConvFilterOp ==
    /\ pc = "ready" /\ bufs.op = "TileConvFilter"
    /\ \E fail_at \in Statuses :
         \E r \in {TileConvFilterOp_execute(
                     TensorOf(bufs.types.in, Filter(1), SignedUnitQuantization),
                     TensorOf(bufs.types.out, Filter(1), SignedUnitQuantization),
                     fail_at)} : Executed(r, fail_at)

ExecuteUnaryOp ==
    /\ pc = "ready" /\ bufs.op = "Unary"
    /\ \E fail_at \in Statuses :
         \E r \in {UnaryOp_execute(
                     TensorOf(bufs.types.in, Dense(0, <<2, 2>>), SignedUnitQuantization),
                     TensorOf(bufs.types.out, Dense(0, <<2, 2>>), bufs.outq),
                     bufs.op_, bufs.ndebug, fail_at)} : Executed(r, fail_at)

\* accept called on the operator with a visitor.
CallAccept ==
    /\ pc = "ready"
    /\ call' = [fn |-> "accept", op |-> bufs.op]
    /\ ret' = [visits |-> accept(bufs.op)]
    /\ pc' = "done"
    /\ UNCHANGED <<bufs, kernels>>

CatalogNext ==
    \/ ExecuteBinaryOp
    \/ ExecuteConcatenationOpOfCatalog
    \/ ExecuteConv2DOp
    \/ ExecuteDepthwiseConv2DOpOfCatalog
    \/ ExecuteFullyConnectedOpOfCatalog
    \/ ExecuteL2NormalizationOp
    \/ ExecutePadOpOfCatalog
    \/ ExecutePoolOp
    \/ ExecuteSoftmaxOp
    \/ ExecuteReductionOp
    \/ ExecuteReshapeOpOfCatalog
    \/ ExecuteTileConvFilterOp
    \/ ExecuteUnaryOp
    \/ CallAccept

SpecCatalog == CatalogInit /\ [][CatalogNext]_vars

IsExecute == pc # "ready" /\ call # NoCall /\ call.fn = "execute"
IsAccept == pc # "ready" /\ call # NoCall /\ call.fn = "accept"
\* The operator was given an element type its execute tests for and does
\* not take.
UnsupportedTypes ==
    \/ /\ bufs.op \in {"Binary", "DepthwiseConv2D", "FullyConnected"}
       /\ \E t \in DOMAIN bufs.types : bufs.types[t] # "uint8"
    \/ /\ bufs.op \in {"Conv2D", "L2Normalization", "Pool", "Softmax", "Reduction", "Unary"}
       /\ (bufs.types.in # "uint8" \/ bufs.types.out # "uint8")
    \/ bufs.op = "TileConvFilter" /\ bufs.types.in # "uint8"
    \/ bufs.op = "Pad" /\ bufs.out.bytes # 1

\* C12: for every kind of operator, execute on an element-type combination
\* the operator does not support ends in the fatal state without invoking a
\* kernel; it never returns normally.
C12_UnsupportedTypesAreFatal ==
    IsExecute /\ UnsupportedTypes => pc = "fatal" /\ kernels = <<>>

\* Kernel number i of the run returned a non-zero status.
Failed(i) == ReturnsStatus(kernels[i]) /\ kernels[i].status # 0

\* C13: in every operator's execute a kernel that returns a non-zero status
\* (each fill and the copy of PadOp::execute included) ends execute in the
\* fatal state at once: it is the last kernel invoked, and execute does not
\* return normally.
C13_KernelFailureIsFatal ==
    IsExecute
      => /\ \A i \in 1..Len(kernels) : Failed(i) => pc = "fatal" /\ i = Len(kernels)
         /\ call.fail_at > 0 => pc = "fatal" /\ Failed(Len(kernels))

\* C13 witness: the second fill of a pad failed after the first succeeded.
C13_Witness ==
    /\ IsExecute /\ bufs.op = "Pad" /\ pc = "fatal"
    /\ call.fail_at = 2
    /\ Len(kernels) = 2
    /\ kernels[1].kernel = "fill_uint8" /\ kernels[1].status = 0
    /\ kernels[2].kernel = "fill_uint8" /\ Failed(2)

\* C16: accept of each of the thirteen kinds makes exactly one call on the
\* visitor, the visit overload of the operator's own kind, with the
\* operator itself as argument.
C16_AcceptVisitsOwnKindOnce ==
    /\ Cardinality(OpKinds) = 13
    /\ IsAccept
         => /\ Len(ret.visits) = 1
            /\ ret.visits[1].callback = "visit"
            /\ ret.visits[1].overload = bufs.op
            /\ ret.visits[1].overload \in VisitOverloads
            /\ ret.visits[1].argument = "this"

\* C16 witness: a unary operator was visited.
C16_Witness ==
    /\ IsAccept /\ bufs.op = "Unary"
    /\ ret.visits = <<[callback |-> "visit", overload |-> "Unary", argument |-> "this"]>>

(***************************************************************************)
(* Pooling geometry: compute_padding called on its own, and                *)
(* PoolOp::execute run on an input and an output of the given widths.      *)
(***************************************************************************)
MaxPoolSize == 4
PoolSizes == 1..MaxPoolSize

PoolInit ==
    /\ pc = "ready"
    /\ call = NoCall
    /\ ret = NoRet
    /\ bufs \in [stride : PoolSizes, in_size : PoolSizes, filter_size : PoolSizes,
                 out_size : PoolSizes]
    /\ kernels = <<>>

CallComputePadding ==
    /\ pc = "ready"
    /\ call' = [fn |-> "compute_padding"]
    /\ ret' = [padding |-> compute_padding(bufs.stride, bufs.in_size, bufs.filter_size,
                                           bufs.out_size)]
    /\ pc' = "done"
    /\ UNCHANGED <<bufs, kernels>>

\* PoolOp::execute on tensors in_size and out_size wide, the stride and the
\* filter size being those of dimension 1.
ExecutePoolOpOfWidth ==
    /\ pc = "ready"
    /\ \E op_ \in {"Average", "Max"} :
         \E r \in {PoolOp_execute(
                     TensorOf("uint8", Dense(0, <<1, bufs.in_size, 1, 1>>),
                              SignedUnitQuantization),
                     TensorOf("uint8", Dense(0, <<1, bufs.out_size, 1, 1>>),
                              SignedUnitQuantization),
                     op_, <<bufs.stride, 1>>, <<bufs.filter_size, 1>>, "None", FALSE, 0)} :
            /\ call' = [fn |-> "execute", op |-> "Pool", op_ |-> op_]
            /\ ret' = NoRet
            /\ kernels' = r.kernels
            /\ pc' = r.pc
    /\ UNCHANGED bufs

PoolNext ==
    \/ CallComputePadding
    \/ ExecutePoolOpOfWidth

SpecPool == PoolInit /\ [][PoolNext]_vars

IsComputePadding == pc = "done" /\ call.fn = "compute_padding"
IsPoolExecute == pc = "done" /\ call.fn = "execute" /\ Len(kernels) = 1
\* The columns the windows of the output cover, counted from the first
\* window's first column.
Covered == (bufs.out_size - 1) * bufs.stride + bufs.filter_size
\* What the windows cover beyond the input.
TotalPadding == Max(0, Covered - bufs.in_size)
\* The columns the pooling kernel reads before the first and after the last
\* column of its input: the windows cover columns 0 .. Covered - 1 of a
\* buffer whose dimension 1 starts at min.
PaddingBefore == Max(0, Dim(kernels[1].buffers[1], 1).min)
PaddingAfter ==
    Max(0, (Covered - 1) - (Dim(kernels[1].buffers[1], 1).min
                            + Dim(kernels[1].buffers[1], 1).extent - 1))

\* C21: compute_padding returns floor(max(0, (out_size - 1) * stride +
\* filter_size - in_size) / 2), which is never negative and is 0 when the
\* input is as wide as what the windows cover; and the kernel PoolOp::execute
\* calls reads that many columns before its input and as many or one more
\* after it.
C21_ComputePaddingIsHalfOfTotalRoundedDown ==
    /\ IsComputePadding =>
         /\ 2 * ret.padding <= TotalPadding
         /\ TotalPadding < 2 * ret.padding + 2
         /\ ret.padding >= 0
         /\ (bufs.in_size >= Covered => ret.padding = 0)
    /\ IsPoolExecute =>
         /\ PaddingBefore = compute_padding(bufs.stride, bufs.in_size, bufs.filter_size,
                                            bufs.out_size)
         /\ PaddingBefore + PaddingAfter = TotalPadding
         /\ PaddingBefore <= PaddingAfter
         /\ PaddingAfter - PaddingBefore <= 1
\* An odd total: one column more after the input than before it.
C21_Witness ==
    /\ IsPoolExecute
    /\ TotalPadding = 3
    /\ PaddingBefore = 1
    /\ PaddingAfter = 2

(***************************************************************************)
(* UnaryOp::execute over input scales: one Logistic or Tanh operator run   *)
(* on a uint8 tensor whose scale is a power of two.                        *)
(***************************************************************************)
MaxUnaryScaleExp == 6
\* 2^-k for k from -MaxUnaryScaleExp up: from 64 down to 1/256.
UnaryScales == [n : {1}, k : (-MaxUnaryScaleExp)..MaxScaleShift]
UnaryOps == {"Logistic", "Tanh"}

UnaryInit ==
    /\ pc = "ready"
    /\ call = NoCall
    /\ ret = NoRet
    /\ bufs \in [op_ : UnaryOps, scale : UnaryScales, zero : {0, 128},
                 outq : OutputQuantizations, ndebug : BOOLEAN]
    /\ kernels = <<>>

ExecuteUnaryOpOfScale ==
    /\ pc = "ready"
    /\ \E fail_at \in Statuses :
         \E r \in {UnaryOp_execute(
                     TensorOf("uint8", Dense(0, <<2, 2>>),
                              [scale |-> bufs.scale, zero |-> bufs.zero]),
                     TensorOf("uint8", Dense(0, <<2, 2>>), bufs.outq),
                     bufs.op_, bufs.ndebug, fail_at)} :
            /\ fail_at <= Len(r.kernels)
            /\ call' = [fn |-> "execute", op |-> "Unary", fail_at |-> fail_at]
            /\ ret' = [real_in_multiplier |->
                           UnaryOp_real_in_multiplier(bufs.scale, bufs.op_)]
            /\ kernels' = r.kernels
            /\ pc' = r.pc
    /\ UNCHANGED bufs

UnaryNext == ExecuteUnaryOpOfScale

SpecUnary == UnaryInit /\ [][UnaryNext]_vars

IsUnaryExecute == pc # "ready" /\ call.fn = "execute" /\ call.op = "Unary"
\* scale * 2 * log2(e) / 64 < 1, the scale being positive.
SmallScale == InUnitInterval(UnaryOp_real_in_multiplier(bufs.scale, "Tanh"))
\* The output quantization the kind asserts.
ExpectedOutput ==
    bufs.outq = IF bufs.op_ = "Logistic" THEN UnitQuantization ELSE SignedUnitQuantization
ReachedUnaryKernel ==
    /\ Len(kernels) = 1
    /\ kernels[1].kernel = IF bufs.op_ = "Logistic" THEN "logistic_uint8" ELSE "tanh_uint8"

\* C22: for Logistic and for Tanh, with a positive input scale such that
\* scale * 2 * log2(e) / 64 < 1, the multiplier execute passes to
\* get_quantized_mul_and_shift_smaller_than_one is in [0, 1), so that a build
\* with assertions does not stop at the pre-condition and reaches the kernel.
C22_UnaryMultiplierInUnitInterval ==
    (IsUnaryExecute /\ SmallScale /\ ExpectedOutput /\ ~bufs.ndebug) =>
        /\ InUnitInterval(ret.real_in_multiplier)
        /\ pc # "assert"
        /\ ReachedUnaryKernel
\* The same for Tanh alone.
TanhMultiplierInUnitInterval ==
    (IsUnaryExecute /\ SmallScale /\ ExpectedOutput /\ ~bufs.ndebug /\ bufs.op_ = "Tanh") =>
        /\ InUnitInterval(ret.real_in_multiplier)
        /\ pc # "assert"
        /\ ReachedUnaryKernel
\* Logistic with a positive scale: the multiplier is negative, and a build
\* with assertions stops at the pre-condition before any kernel is called.
LogisticAsserts ==
    (IsUnaryExecute /\ bufs.op_ = "Logistic" /\ ~bufs.ndebug) =>
        /\ ret.real_in_multiplier.neg
        /\ pc = "assert"
        /\ kernels = <<>>
C22_Witness ==
    /\ IsUnaryExecute /\ SmallScale /\ ExpectedOutput /\ ~bufs.ndebug
    /\ bufs.op_ = "Logistic"
    /\ bufs.scale.k = 7
    /\ pc = "assert"

(***************************************************************************)
(* Broadcasting followed by fusion, as BinaryOp::execute does with its two *)
(* inputs and its output: broadcast_shapes on the inputs, then can_fuse    *)
(* asked of one of them, or optimize_elementwise_shapes run on the three   *)
(* operands.                                                               *)
(***************************************************************************)
IsBroadcast == pc = "done" /\ call.fn = "broadcast_shapes"

\* The output of a binary operator: a dense tensor of the rank of the
\* input of higher rank, with the extents the inputs are broadcast to.
BroadcastOutput ==
    Dense(0, [i \in 1..Max(Dimensions(call.a), Dimensions(call.b)) |-> bufs.a.dim[i].extent])

CallCanFuseAfterBroadcast ==
    /\ IsBroadcast
    /\ \E buf \in {bufs.a, bufs.b}, d0 \in 0..(BinaryRank - 1), d1 \in 0..(BinaryRank - 1) :
         /\ d0 # d1
         /\ call' = [fn |-> "can_fuse", buf |-> buf, d0 |-> d0, d1 |-> d1]
         /\ ret' = [value |-> can_fuse(buf, d0, d1)]
    /\ pc' = "done"
    /\ UNCHANGED <<bufs, kernels>>

CallOptimizeAfterBroadcast ==
    /\ IsBroadcast
    /\ \E r \in {optimize_elementwise_shapes(<<bufs.a, bufs.b, BroadcastOutput>>, BinaryRank)} :
         /\ call' = [fn |-> "optimize_elementwise_shapes", operands |-> 3,
                     rank |-> BinaryRank, a |-> bufs.a, b |-> bufs.b]
         /\ ret' = [steps |-> r.steps]
         /\ bufs' = [a |-> r.ops[1], b |-> r.ops[2], c |-> r.ops[3]]
    /\ pc' = "done"
    /\ UNCHANGED kernels

\* The view of a dense tensor that is broadcast along the dimensions in
\* `along': those have stride 0, the others are packed one on the other.
BroadcastAlong(buf, along) ==
    [host |-> buf.host,
     dim |-> Layout([i \in 1..Dimensions(buf) |->
                       [min |-> 0, extent |-> buf.dim[i].extent,
                        kind |-> IF (i - 1) \in along THEN "broadcast" ELSE "dense"]], 1)]

\* optimize_elementwise_shapes on its own: the first operand is broadcast
\* along some of its dimensions, the two others are dense.
CallOptimizeOnBroadcastView ==
    /\ pc = "ready"
    /\ \E along \in SUBSET (0..(Dimensions(bufs.a) - 1)) :
         \E r \in {optimize_elementwise_shapes(
                     <<BroadcastAlong(bufs.a, along), bufs.a, bufs.a>>, BinaryRank)} :
            /\ call' = [fn |-> "optimize_elementwise_shapes", operands |-> 3,
                        rank |-> BinaryRank, a |-> BroadcastAlong(bufs.a, along),
                        b |-> bufs.a]
            /\ ret' = [steps |-> r.steps]
            /\ bufs' = [a |-> r.ops[1], b |-> r.ops[2], c |-> r.ops[3]]
    /\ pc' = "done"
    /\ UNCHANGED kernels

BroadcastFuseNext ==
    \/ CallBroadcastShapes
    \/ CallCanFuseAfterBroadcast
    \/ CallOptimizeAfterBroadcast
    \/ CallOptimizeOnBroadcastView

SpecBroadcastFuse == BroadcastInit /\ [][BroadcastFuseNext]_vars

IsCanFuseAfterBroadcast == pc = "done" /\ call.fn = "can_fuse"
IsOptimizeAfterBroadcast == pc = "done" /\ call.fn = "optimize_elementwise_shapes"
\* The dimensions of stride 0 of a view.
BroadcastDims(buf) == {d \in 0..(Dimensions(buf) - 1) : Dim(buf, d).stride = 0}
\* A fusion step merges dimensions 0 and 1 of every operand.
MergesBroadcastDim(step) ==
    \E i \in 1..Len(step.before) : BroadcastDims(step.before[i]) \cap {0, 1} # {}

\* C23: can_fuse(buf, d0, d1) is false when the stride of d0 or of d1 is 0;
\* and when optimize_elementwise_shapes runs after broadcast_shapes, none of
\* its fusion steps merges a dimension of stride 0, and every dimension
\* broadcast_shapes gave stride 0 still has stride 0 and its extent.
C23_BroadcastDimsAreNeverFused ==
    /\ IsCanFuseAfterBroadcast =>
         (BroadcastDims(call.buf) \cap {call.d0, call.d1} # {} => ~ret.value)
    /\ IsOptimizeAfterBroadcast =>
         /\ \A i \in 1..Len(ret.steps) : ~MergesBroadcastDim(ret.steps[i])
         /\ \A d \in BroadcastDims(call.a) :
              /\ Dim(bufs.a, d - Len(ret.steps)).stride = 0
              /\ Dim(bufs.a, d - Len(ret.steps)).extent = Dim(call.a, d).extent
         /\ \A d \in BroadcastDims(call.b) :
              /\ Dim(bufs.b, d - Len(ret.steps)).stride = 0
              /\ Dim(bufs.b, d - Len(ret.steps)).extent = Dim(call.b, d).extent
\* C23 witness: dimensions 0 and 1 are fused, and the broadcast dimension 2,
\* of extent above 1, is dimension 1 afterwards, still with stride 0.
C23_Witness ==
    /\ IsOptimizeAfterBroadcast
    /\ BroadcastDims(call.a) = {2}
    /\ Dim(call.a, 2).extent > 1
    /\ Len(ret.steps) = 1
    /\ Dim(bufs.a, 1).stride = 0
    /\ Dim(bufs.a, 1).extent = Dim(call.a, 2).extent
\* After broadcast_shapes itself: the second input is broadcast along
\* dimension 1 only, and still is after optimize_elementwise_shapes.
BroadcastInputKeepsStrideZero ==
    /\ IsOptimizeAfterBroadcast
    /\ "rank" \in DOMAIN call /\ Dimensions(call.b) = BinaryRank
    /\ BroadcastDims(call.b) = {1}
    /\ Dim(call.b, 1).extent > 1
    /\ Dim(bufs.b, 1).stride = 0
    /\ Dim(bufs.b, 1).extent = Dim(call.b, 1).extent

====
